---- MODULE Spec2Model ----
(***************************************************************************)
(* A model of the SafeOrderedMap of thalesfsp/go-common-types              *)
(* (src/safeorderedmap/safeorderedmap.go) and of the containers built on   *)
(* it.  Keys are strings in the code and the integers 1..NumKeys here;     *)
(* the type parameter T is instantiated as bool, whose zero value is false.*)
(***************************************************************************)
EXTENDS Integers, Sequences, FiniteSets, TLC

\* ----------------------------------------------------------------- bounds
\* The number of distinct keys.
NumKeys == 3
\* The largest number of fields of a JSON document.
MaxDocFields == 2
\* The largest number of entries of a map that exists before the calls start.
MaxFill == 2
\* The largest number of Add and Delete calls made after a Clone.
MaxAfter == 2

KeySet == 1..NumKeys
\* The values of T = bool.
ValSet == BOOLEAN
\* *new(T) for T = bool.
ZeroValue == FALSE
\* No key: the empty string.
NoKey == 0

\* The two map instances of the model: a receiver and an argument map.
MapIds == {"m", "other"}

VARIABLES
    data,    \* data[id]  : SafeOrderedMap.data  (map[string]T) of instance id,
             \*             or SafeSlice.data ([]T) where the instances are slices
    order,   \* order[id] : SafeOrderedMap.order ([]string) of instance id
    last,    \* the call that produced the current state, with what it returned
    firsts,  \* history: the keys passed to Add, in the order of their first Add
    removed, \* history: the keys that a Delete has removed so far
    mu,      \* mu[id] : the sync.RWMutex embedded in instance id
    th,      \* th[t]  : the call thread t is running and how far it has got
    out      \* what the last reading call returned and what it did on the way

vars == <<data, order, last, firsts, removed, mu, th, out>>

\* ------------------------------------------------------ Go map and slices
\* _, ok := m[key]
Has(d, key) == key \in DOMAIN d

\* m[key] on a Go map: the zero value when the key is missing.
Lookup(d, key) == IF Has(d, key) THEN d[key] ELSE ZeroValue

\* m[key] = value
Store(d, key, value) ==
    [x \in (DOMAIN d) \cup {key} |-> IF x = key THEN value ELSE d[x]]

\* delete(m, key)
Remove(d, key) == [x \in (DOMAIN d) \ {key} |-> d[x]]

\* make(map[string]T)
EmptyData == [x \in {} |-> ZeroValue]

\* The elements of a sequence.
Range(s) == {s[i] : i \in 1..Len(s)}

\* A sequence without repeated elements.
NoDup(s) == \A i, j \in 1..Len(s) : s[i] = s[j] => i = j

\* All sequences without repetition over exactly the elements of S.
RECURSIVE Perms(_)
Perms(S) ==
    IF S = {} THEN {<<>>}
    ELSE UNION {{<<x>> \o p : p \in Perms(S \ {x})} : x \in S}

\* ------------------------------------------------------------- operations
\* New: an empty data map and an empty order slice.
New == [data |-> EmptyData, order |-> <<>>]

\* Add without its presence test: the key is appended on every call.
AddAlwaysAppend(m, key, value) ==
    [data |-> Store(m.data, key, value), order |-> Append(m.order, key)]

\* Add: append the key to order when data does not hold it, then store.
Add(m, key, value) ==
    [data  |-> Store(m.data, key, value),
     order |-> IF Has(m.data, key) THEN m.order ELSE Append(m.order, key)]

\* Removal by moving the last element into the hole instead of closing it.
CutSwapLast(o, key) ==
    LET at == {i \in 1..Len(o) : o[i] = key}
    IN  IF at = {} THEN o
        ELSE LET i == CHOOSE x \in at : \A y \in at : x <= y
             IN  SubSeq([o EXCEPT ![i] = o[Len(o)]], 1, Len(o) - 1)

\* The loop of Delete: cut the first position of order that holds key.
CutFirst(o, key) ==
    LET at == {i \in 1..Len(o) : o[i] = key}
    IN  IF at = {} THEN o
        ELSE LET i == CHOOSE x \in at : \A y \in at : x <= y
             IN  SubSeq(o, 1, i - 1) \o SubSeq(o, i + 1, Len(o))

\* Delete without the cut of order.
DeleteKeepsOrder(m, key) ==
    IF Has(m.data, key) THEN [data |-> Remove(m.data, key), order |-> m.order] ELSE m

\* Delete without its delete(m.data, key).
DeleteKeepsData(m, key) ==
    IF Has(m.data, key)
    THEN [data |-> m.data, order |-> CutFirst(m.order, key)]
    ELSE m

\* Delete: when data holds the key, delete it and cut it from order.
Delete(m, key) ==
    IF Has(m.data, key)
    THEN [data |-> Remove(m.data, key), order |-> CutFirst(m.order, key)]
    ELSE m

\* Get taking the flag from the value instead of from the lookup.
GetByValue(m, key) == <<Lookup(m.data, key), Lookup(m.data, key) # ZeroValue>>

\* Get: (value, ok).
Get(m, key) == <<Lookup(m.data, key), Has(m.data, key)>>

\* Keys: a copy of order.
Keys(m) == m.order

\* Values: data[key] for each key of order.
Values(m) == [i \in 1..Len(m.order) |-> Lookup(m.data, m.order[i])]

\* Contains: the ok of Get.
Contains(m, key) == Get(m, key)[2]

\* Size: len(order).
Size(m) == Len(m.order)

\* Empty: len(order) == 0.
Empty(m) == Len(m.order) = 0

\* Index counting positions from one.
IndexOneBased(m, key) ==
    LET at == {i \in 1..Len(m.order) : m.order[i] = key}
    IN  IF at = {} THEN <<-1, ZeroValue, FALSE>>
        ELSE <<CHOOSE i \in at : \A j \in at : i <= j, Lookup(m.data, key), TRUE>>

\* Index: (i, data[key], true) for the first i with order[i] == key, counted
\* from zero; (-1, zero value, false) when the loop ends without one.
Index(m, key) ==
    LET at == {i \in 1..Len(m.order) : m.order[i] = key}
    IN  IF at = {} THEN <<-1, ZeroValue, FALSE>>
        ELSE <<(CHOOSE i \in at : \A j \in at : i <= j) - 1, Lookup(m.data, key), TRUE>>

\* ------------------------------------------------------------------- JSON
\* The inputs of UnmarshalJSON, by what json.Unmarshal(data, &temp) makes of
\* them for temp of type map[string]T:
\*   object    a JSON object whose fields are all of type T: temp holds them;
\*   null      the JSON literal null: temp is the nil map, and no error;
\*   malformed not well-formed JSON: a syntax error;
\*   mismatch  well-formed JSON that is no object of T (an array, a string
\*             field for T = bool): an UnmarshalTypeError.
Fields ==
    UNION {[S -> ValSet] : S \in {X \in SUBSET KeySet : Cardinality(X) <= MaxDocFields}}

Docs ==
    [kind : {"object"}, fields : Fields]
        \cup [kind : {"null", "malformed", "mismatch"}, fields : {EmptyData}]

\* json.Unmarshal(data, &temp): the error and the decoded temp.
JsonUnmarshal(doc) ==
    [err  |-> doc.kind \in {"malformed", "mismatch"},
     temp |-> IF doc.kind = "object" THEN doc.fields ELSE EmptyData]

\* The orders in which `for key := range temp` can visit the keys of temp,
\* for every input: the pairs <<doc, perm>>.
Decodings ==
    UNION {{<<doc, perm>> : perm \in Perms(DOMAIN JsonUnmarshal(doc).temp)} : doc \in Docs}

\* The loop of UnmarshalJSON over temp, visiting its keys in the order perm
\* (Go ranges over a map in an unspecified order).
RECURSIVE UnmarshalLoop(_, _, _)
UnmarshalLoop(m, temp, perm) ==
    IF perm = <<>> THEN m
    ELSE UnmarshalLoop(
            [data  |-> Store(m.data, Head(perm), temp[Head(perm)]),
             order |-> Append(m.order, Head(perm))],
            temp, Tail(perm))

\* UnmarshalJSON: on a decode error return it and touch nothing; otherwise
\* reset order to the empty slice and run the loop.  data is not reset.
UnmarshalJSON(m, doc, perm) ==
    LET r == JsonUnmarshal(doc)
    IN  IF r.err
        THEN [err |-> TRUE, m |-> m]
        ELSE [err |-> FALSE,
              m   |-> UnmarshalLoop([data |-> m.data, order |-> <<>>], r.temp, perm)]

\* ------------------------------------------------------ locks and threads
\* Two concurrent callers: one that mutates and one that reads.
Threads == {"w", "r"}
NoThread == "none"

\* sync.RWMutex: w is the thread that has taken the writer side (from the
\* moment its Lock has announced itself, which already blocks new readers,
\* until its Unlock), r[t] the number of read locks thread t holds.
FreeLock == [w |-> NoThread, r |-> [t \in Threads |-> 0]]

\* GenerateHash as SafeSet uses it: the map key of a value; distinct values
\* get distinct keys.
GenerateHash(value) == IF value THEN NumKeys ELSE NumKeys - 1

\* One step of a method: k what it does, x the instance it acts on, y a second
\* instance it reads, mode a variant of k, when the conditions under which
\* the code executes it (otherwise it is skipped).
Ins(k, x) == [k |-> k, x |-> x, y |-> x, mode |-> "", when |-> {}]
Ins2(k, x, y, mode) == [k |-> k, x |-> x, y |-> y, mode |-> mode, when |-> {}]

\* prog, executed only when condition c holds as well.
Guarded(prog, c) ==
    [i \in DOMAIN prog |-> [prog[i] EXCEPT !.when = @ \cup {c}]]

\* Add taking no lock.
AddProgNoLock(x) ==
    <<Ins("Test", x)>> \o Guarded(<<Ins("Append", x)>>, "notok") \o <<Ins("Store", x)>>

\* Add: Lock; _, ok := data[key]; if !ok append to order; data[key] = value;
\* Unlock (deferred).
AddProg(x) ==
    <<Ins("Lock", x), Ins("Test", x)>>
        \o Guarded(<<Ins("Append", x)>>, "notok")
        \o <<Ins("Store", x), Ins("Unlock", x)>>

\* Delete: Lock; if data holds key: delete it, cut it from order; Unlock.
DeleteProg(x) ==
    <<Ins("Lock", x), Ins("Test", x)>>
        \o Guarded(<<Ins("DeleteKey", x), Ins("Cut", x)>>, "ok")
        \o <<Ins("Unlock", x)>>

\* Get: RLock; value, ok := data[key]; RUnlock.
GetProg(x) == <<Ins("RLock", x), Ins("Load", x), Ins("RUnlock", x)>>

\* Keys: RLock; copy(keys, order); RUnlock.
KeysProg(x) == <<Ins("RLock", x), Ins("Copy", x), Ins("RUnlock", x)>>

\* A read-locked loop `for _, key := range m.order` that reads data[key] of
\* each key; visit says how the loop ends.
LoopProg(x, visit) ==
    <<Ins("RLock", x), Ins("Range", x), Ins(visit, x), Ins("RUnlock", x)>>

\* Values: the loop over all of order.
ValuesProg(x) == LoopProg(x, "VisitAll")

\* Contains: RLock; m.Get(key), which takes the read lock again; RUnlock.
ContainsProg(x) == <<Ins("RLock", x)>> \o GetProg(x) \o <<Ins("RUnlock", x)>>

\* Size and Empty: RLock; len(order); RUnlock.
SizeProg(x) == <<Ins("RLock", x), Ins("Len", x), Ins("RUnlock", x)>>
EmptyProg(x) == <<Ins("RLock", x), Ins("Len", x), Ins("RUnlock", x)>>

\* Clone, Map, Filter, Each, Reduce, DropWhile: the loop over all of order;
\* what they build is a new instance that no other thread can reach.
CloneProg(x) == LoopProg(x, "VisitAll")

\* All, Any, Find, TakeWhile: the loop, left as soon as the callback decides.
FindProg(x) == LoopProg(x, "VisitBreak")

\* Index: the loop until order[i] == key, then data[key].
IndexProg(x) == LoopProg(x, "VisitIndex")

\* Union: RLock of the receiver only; its loop; then a loop over other.order
\* that reads m.data and other.data; RUnlock.
UnionProg(x, other) ==
    <<Ins("RLock", x), Ins("Range", x), Ins("VisitAll", x),
      Ins("Range", other), Ins2("VisitUnion", other, x, ""), Ins("RUnlock", x)>>

\* Difference, Intersection, Subset: RLock of the receiver only; a loop over
\* its order that looks each key up in other.data; RUnlock.
ProbeProg(x, other, mode) ==
    <<Ins("RLock", x), Ins("Range", x), Ins2("VisitProbe", x, other, mode),
      Ins("RUnlock", x)>>

DifferenceProg(x, other) == ProbeProg(x, other, "absent")
IntersectionProg(x, other) == ProbeProg(x, other, "present")
SubsetProg(x, other) == ProbeProg(x, other, "subset")

\* Superset: other.Subset(m).
SupersetProg(x, other) == SubsetProg(other, x)

\* SafeSet.Get(index): RLock of the inner map; Size(); when the index is in
\* range, Values()[index]; RUnlock.
SetGetProg(x) ==
    <<Ins("RLock", x)>> \o SizeProg(x) \o Guarded(ValuesProg(x), "inrange")
        \o <<Ins("RUnlock", x)>>

\* SafeSet.Delete(index): Lock of the inner map; Size(); when the index is in
\* range, Delete(GenerateHash(Values()[index])); Unlock.
SetDeleteProg(x) ==
    <<Ins("Lock", x)>> \o SizeProg(x)
        \o Guarded(ValuesProg(x) \o <<Ins("HashAt", x)>> \o DeleteProg(x), "inrange")
        \o <<Ins("Unlock", x)>>

\* SafeSet.First: RLock; Empty(); when not empty, Values()[0]; RUnlock.
SetFirstProg(x) ==
    <<Ins("RLock", x)>> \o EmptyProg(x) \o Guarded(ValuesProg(x), "nonempty")
        \o <<Ins("RUnlock", x)>>

\* SafeSet.Last: RLock; Empty(); when not empty, Values()[Size()-1]; RUnlock.
SetLastProg(x) ==
    <<Ins("RLock", x)>> \o EmptyProg(x)
        \o Guarded(ValuesProg(x) \o SizeProg(x), "nonempty")
        \o <<Ins("RUnlock", x)>>

\* SafeSet.String: RLock; Values(); for each value one Size(); RUnlock.
SetStringProg(x) ==
    <<Ins("RLock", x)>> \o ValuesProg(x) \o Guarded(SizeProg(x), "more")
        \o <<Ins("Again", x), Ins("RUnlock", x)>>

\* The length of the body that Again repeats.
AgainBack == Len(SizeProg("m"))

\* UnmarshalJSON: Lock; json.Unmarshal, the reset of order and the loop over
\* temp; Unlock.
UnmarshalJSONProg(x) == <<Ins("Lock", x), Ins("Decode", x), Ins("Unlock", x)>>

\* SafeSlice (its data is the slice order[x]). Add: Lock; append; Unlock.
SliceAddProg(x) == <<Ins("Lock", x), Ins("Append", x), Ins("Unlock", x)>>

\* SafeSlice.Contains: RLock; the loop comparing each element; RUnlock.
SliceContainsProg(x) == <<Ins("RLock", x), Ins("Scan", x), Ins("RUnlock", x)>>

\* SafeSlice.Subset: RLock of the receiver; for each item of its data
\* other.Contains(item), returning false when it is not there; RUnlock.
SliceSubsetProg(x, other) ==
    <<Ins("RLock", x), Ins("Range", x)>>
        \o Guarded(SliceContainsProg(other), "each")
        \o <<Ins("Loop", x), Ins("RUnlock", x)>>

\* A call: the method, the receiver x, the argument map other, and the key,
\* value or index passed.
NoCall == [op |-> "idle", x |-> "m", other |-> "other",
           key |-> NoKey, value |-> ZeroValue, index |-> 0]

MapCall(op, x, other, key, value) ==
    [op |-> op, x |-> x, other |-> other, key |-> key, value |-> value, index |-> 0]

SetCall(op, x, index) ==
    [op |-> op, x |-> x, other |-> x, key |-> NoKey, value |-> ZeroValue, index |-> index]

\* The steps of a call.
Prog(c) ==
    CASE c.op = "Add" -> AddProg(c.x)
      [] c.op = "Delete" -> DeleteProg(c.x)
      [] c.op = "Get" -> GetProg(c.x)
      [] c.op = "Contains" -> ContainsProg(c.x)
      [] c.op = "Keys" -> KeysProg(c.x)
      [] c.op = "Values" -> ValuesProg(c.x)
      [] c.op = "Index" -> IndexProg(c.x)
      [] c.op = "Size" -> SizeProg(c.x)
      [] c.op \in {"Clone", "Map", "Filter", "Each", "Reduce", "DropWhile"} ->
            CloneProg(c.x)
      [] c.op \in {"All", "Any", "Find", "TakeWhile"} -> FindProg(c.x)
      [] c.op = "Union" -> UnionProg(c.x, c.other)
      [] c.op = "Difference" -> DifferenceProg(c.x, c.other)
      [] c.op = "Intersection" -> IntersectionProg(c.x, c.other)
      [] c.op = "Subset" -> SubsetProg(c.x, c.other)
      [] c.op = "Superset" -> SupersetProg(c.x, c.other)
      [] c.op = "UnmarshalJSON" -> UnmarshalJSONProg(c.x)
      [] c.op = "SafeSlice.Add" -> SliceAddProg(c.x)
      [] c.op = "SafeSlice.Subset" -> SliceSubsetProg(c.x, c.other)
      [] c.op = "SafeSet.Get" -> SetGetProg(c.x)
      [] c.op = "SafeSet.Delete" -> SetDeleteProg(c.x)
      [] c.op = "SafeSet.First" -> SetFirstProg(c.x)
      [] c.op = "SafeSet.Last" -> SetLastProg(c.x)
      [] c.op = "SafeSet.String" -> SetStringProg(c.x)
      [] OTHER -> <<>>

NoView == [id |-> "none", m |-> New]

\* A thread at the start of call c.  pc is the step it is at; pend is set
\* while its Lock has announced itself and waits for the readers to leave;
\* key, ok, n, snap, i, j, acc and ret are the locals of the methods; torn
\* records that a key read from order had no value in data; view is the
\* instance as it was when the thread took its read lock.
Start(c) ==
    [call |-> c, pc |-> 1, pend |-> FALSE, key |-> c.key, ok |-> FALSE, n |-> 0,
     snap |-> <<>>, i |-> 1, j |-> 0, acc |-> <<>>, ret |-> FALSE,
     torn |-> FALSE, fatal |-> FALSE, view |-> NoView]

\* ---------------------------------------------------------- state machine
\* The instance id as a record.
Self(id) == [data |-> data[id], order |-> order[id]]

NoDoc == [kind |-> "none", fields |-> EmptyData]

\* No reading call has returned yet.
NoOut == [op |-> "none"]

\* A call as last records it: the method, its key and value arguments, whether
\* data held the key when it was called, the input of an UnmarshalJSON, and
\* whether an error was returned.
Call(op, key, value, had, doc, err) ==
    [op |-> op, key |-> key, value |-> value, had |-> had, doc |-> doc, err |-> err]

Init ==
    /\ data = [id \in MapIds |-> New.data]
    /\ order = [id \in MapIds |-> New.order]
    /\ last = Call("New", NoKey, ZeroValue, FALSE, NoDoc, FALSE)
    /\ firsts = <<>>
    /\ removed = {}
    /\ out = NoOut
    /\ mu = [id \in MapIds |-> FreeLock]
    /\ th = [t \in Threads |-> Start(NoCall)]

\* m.Add(key, value)
AddCall(key, value) ==
    LET r == Add(Self("m"), key, value)
    IN  /\ data' = [data EXCEPT !["m"] = r.data]
        /\ order' = [order EXCEPT !["m"] = r.order]
        /\ last' = Call("Add", key, value, Has(data["m"], key), NoDoc, FALSE)

\* m.Delete(key)
DeleteCall(key) ==
    LET r == Delete(Self("m"), key)
    IN  /\ data' = [data EXCEPT !["m"] = r.data]
        /\ order' = [order EXCEPT !["m"] = r.order]
        /\ last' = Call("Delete", key, ZeroValue, Has(data["m"], key), NoDoc, FALSE)

\* m.UnmarshalJSON(doc), its loop ranging over temp in the order perm
UnmarshalJSONCall(doc, perm) ==
    LET r == UnmarshalJSON(Self("m"), doc, perm)
    IN  /\ data' = [data EXCEPT !["m"] = r.m.data]
        /\ order' = [order EXCEPT !["m"] = r.m.order]
        /\ last' = Call("UnmarshalJSON", NoKey, ZeroValue, FALSE, doc, r.err)

DoAdd ==
    /\ \E key \in KeySet, value \in ValSet : AddCall(key, value)
    /\ UNCHANGED <<firsts, removed, mu, th, out>>

DoDelete ==
    /\ \E key \in KeySet : DeleteCall(key)
    /\ UNCHANGED <<firsts, removed, mu, th, out>>

DoUnmarshalJSON ==
    /\ \E in \in Decodings : UnmarshalJSONCall(in[1], in[2])
    /\ UNCHANGED <<firsts, removed, mu, th, out>>

Next == DoAdd \/ DoDelete \/ DoUnmarshalJSON

\* Add, Delete and UnmarshalJSON calls on one map, in any sequence.
Spec == Init /\ [][Next]_vars

\* Add calls only, with the history of first Adds.
AddOnly ==
    \E key \in KeySet, value \in ValSet :
        /\ AddCall(key, value)
        /\ firsts' = IF key \in Range(firsts) THEN firsts ELSE Append(firsts, key)
        /\ UNCHANGED <<removed, mu, th, out>>

SpecAdd == Init /\ [][AddOnly]_vars

\* Add and Delete calls only, with the history of removed keys.
AddAfterDelete ==
    /\ \E key \in KeySet, value \in ValSet : AddCall(key, value)
    /\ UNCHANGED <<firsts, removed, mu, th, out>>

DeleteRemoving ==
    \E key \in KeySet :
        /\ DeleteCall(key)
        /\ removed' = IF Has(data["m"], key) THEN removed \cup {key} ELSE removed
        /\ UNCHANGED <<firsts, mu, th, out>>

NextAddDelete == AddAfterDelete \/ DeleteRemoving

SpecAddDelete == Init /\ [][NextAddDelete]_vars

\* The calls of the concurrent specifications.
WriterCalls(x) ==
    {MapCall("Add", x, x, key, value) : key \in KeySet, value \in ValSet}
        \cup {MapCall("Delete", x, x, key, ZeroValue) : key \in KeySet}

ReaderCalls(x) ==
    {MapCall(op, x, x, key, ZeroValue) : op \in {"Get", "Contains", "Index"}, key \in KeySet}
        \cup {MapCall(op, x, x, NoKey, ZeroValue) :
                op \in {"Keys", "Values", "Size", "Clone", "Map", "Filter", "Each",
                        "Reduce", "DropWhile", "All", "Any", "Find", "TakeWhile"}}

AlgebraCalls ==
    {MapCall(op, "m", "other", NoKey, ZeroValue) :
        op \in {"Union", "Difference", "Intersection", "Subset", "Superset"}}

SetWriterCalls ==
    {MapCall("Add", "m", "m", GenerateHash(value), value) : value \in ValSet}
        \cup {SetCall("SafeSet.Delete", "m", index) : index \in 0..Cardinality(ValSet)}
        \cup {NoCall}

SetReaderCalls ==
    {MapCall("Contains", "m", "m", key, ZeroValue) : key \in KeySet}
        \cup {SetCall("SafeSet.Get", "m", index) : index \in 0..Cardinality(ValSet)}
        \cup {SetCall(op, "m", 0) : op \in {"SafeSet.First", "SafeSet.Last", "SafeSet.String"}}

\* Add, Delete and UnmarshalJSON on m.
MutatingCalls ==
    WriterCalls("m") \cup {MapCall("UnmarshalJSON", "m", "m", NoKey, ZeroValue)}

\* The traversals that take a callback, and those that can leave their loop
\* before its end.
Traversals == {"All", "Any", "Map", "Filter", "Each", "Reduce", "Find", "TakeWhile", "DropWhile"}
Breaking == {"All", "Any", "Find", "TakeWhile"}

\* A traversal of m whose callback makes the call f on m.
CallbackCalls ==
    {[op |-> op, x |-> "m", other |-> "m", key |-> f.key, value |-> f.value,
      index |-> 0, f |-> f] : op \in Traversals, f \in MutatingCalls}

\* A traversal that releases the read lock before it calls the callback.
TraverseUnlocked(c) ==
    <<Ins("RLock", c.x), Ins("Range", c.x), Ins("RUnlock", c.x)>>
        \o Guarded(Prog(c.f), "each") \o <<Ins("Loop", c.x)>>

\* All, Any, Map, Filter, Each, Reduce, Find, TakeWhile, DropWhile: RLock;
\* for each key of order the callback, which here makes the call c.f;
\* RUnlock (deferred).
Traverse(c) ==
    <<Ins("RLock", c.x), Ins("Range", c.x)>>
        \o Guarded(Prog(c.f), "each") \o <<Ins("Loop", c.x), Ins("RUnlock", c.x)>>

\* s.Subset(o), o.Subset(s), s.Add(1) and o.Add(1), one goroutine each.
SliceCalls ==
    [sub1 |-> MapCall("SafeSlice.Subset", "m", "other", NoKey, ZeroValue),
     sub2 |-> MapCall("SafeSlice.Subset", "other", "m", NoKey, ZeroValue),
     add1 |-> MapCall("SafeSlice.Add", "m", "m", 1, ZeroValue),
     add2 |-> MapCall("SafeSlice.Add", "other", "other", 1, ZeroValue)]

\* The steps of every call, worked out once.
Steps ==
    [c \in WriterCalls("m") \cup WriterCalls("other") \cup ReaderCalls("m")
            \cup AlgebraCalls \cup SetWriterCalls \cup SetReaderCalls
            \cup MutatingCalls \cup CallbackCalls \cup {SliceCalls[t] : t \in DOMAIN SliceCalls} |->
        IF "f" \in DOMAIN c THEN Traverse(c) ELSE Prog(c)]

\* ------------------------------------------------------- concurrent calls
\* The step thread t is at, and whether its call has returned.
Done(t) == th[t].pc > Len(Steps[th[t].call])
Cur(t) == Steps[th[t].call][th[t].pc]

\* The conditions of the code's if statements, on the locals of thread t.
Holds(t, c) ==
    CASE c = "ok" -> th[t].ok
      [] c = "notok" -> ~th[t].ok
      [] c = "inrange" -> th[t].call.index >= 0 /\ th[t].call.index < th[t].n
      [] c = "nonempty" -> th[t].n > 0
      [] c = "more" -> th[t].j < Len(th[t].acc)
      [] c = "each" -> th[t].i <= Len(th[t].snap)
      [] OTHER -> FALSE

\* A fatal error of the Go runtime ends every thread of the process.
Running == \A u \in DOMAIN th : ~th[u].fatal

\* Thread t is at a step of kind k that the code executes.
At(t, kinds) ==
    /\ Running
    /\ ~Done(t)
    /\ Cur(t).k \in kinds
    /\ \A c \in Cur(t).when : Holds(t, c)

Advance(t) == th' = [th EXCEPT ![t].pc = @ + 1]

\* A step inside an if whose condition is false.
SkipStep(t) ==
    /\ Running
    /\ ~Done(t)
    /\ \E c \in Cur(t).when : ~Holds(t, c)
    /\ Advance(t)
    /\ UNCHANGED <<data, order, last, firsts, removed, mu, out>>

\* RWMutex.RLock: blocks while a writer holds or waits for the lock.
RLock(t) ==
    /\ At(t, {"RLock"})
    /\ LET x == Cur(t).x
       IN  /\ mu[x].w = NoThread
           /\ mu' = [mu EXCEPT ![x].r[t] = @ + 1]
           /\ th' = [th EXCEPT ![t].pc = @ + 1,
                               ![t].view = IF mu[x].r[t] = 0
                                           THEN [id |-> x, m |-> Self(x)]
                                           ELSE @]
    /\ UNCHANGED <<data, order, last, firsts, removed, out>>

\* RWMutex.RUnlock.
RUnlock(t) ==
    /\ At(t, {"RUnlock"})
    /\ LET x == Cur(t).x
       IN  /\ mu' = [mu EXCEPT ![x].r[t] = @ - 1]
           /\ th' = [th EXCEPT ![t].pc = @ + 1,
                               ![t].view = IF mu[x].r[t] = 1 THEN NoView ELSE @]
    /\ UNCHANGED <<data, order, last, firsts, removed, out>>

\* RWMutex.Lock, first half: take the writer side, once no other writer has
\* it.  From here on RLock blocks.
LockAnnounce(t) ==
    /\ At(t, {"Lock"})
    /\ ~th[t].pend
    /\ mu[Cur(t).x].w = NoThread
    /\ mu' = [mu EXCEPT ![Cur(t).x].w = t]
    /\ th' = [th EXCEPT ![t].pend = TRUE]
    /\ UNCHANGED <<data, order, last, firsts, removed, out>>

\* RWMutex.Lock, second half: wait until every read lock is released.
LockAcquire(t) ==
    /\ At(t, {"Lock"})
    /\ th[t].pend
    /\ \A u \in DOMAIN mu[Cur(t).x].r : mu[Cur(t).x].r[u] = 0
    /\ th' = [th EXCEPT ![t].pend = FALSE, ![t].pc = @ + 1]
    /\ UNCHANGED <<data, order, last, firsts, removed, mu, out>>

\* RWMutex.Unlock.
Unlock(t) ==
    /\ At(t, {"Unlock"})
    /\ mu' = [mu EXCEPT ![Cur(t).x].w = NoThread]
    /\ Advance(t)
    /\ UNCHANGED <<data, order, last, firsts, removed, out>>

\* The statements of Add and Delete between Lock and Unlock.
WriteStep(t) ==
    /\ At(t, {"Test", "Append", "Store", "DeleteKey", "Cut"})
    /\ LET k == Cur(t).k
           x == Cur(t).x
           key == th[t].key
       IN  /\ th' = [th EXCEPT ![t].pc = @ + 1,
                               ![t].ok = IF k = "Test" THEN Has(data[x], key) ELSE @]
           /\ data' = CASE k = "Store" ->
                               [data EXCEPT ![x] = Store(@, key, th[t].call.value)]
                         [] k = "DeleteKey" -> [data EXCEPT ![x] = Remove(@, key)]
                         [] OTHER -> data
           /\ order' = CASE k = "Append" -> [order EXCEPT ![x] = Append(@, key)]
                          [] k = "Cut" -> [order EXCEPT ![x] = CutFirst(@, key)]
                          [] OTHER -> order
    /\ UNCHANGED <<last, firsts, removed, mu, out>>

\* The statements that read data or order once, and the loop of
\* SafeSet.String.
ReadStep(t) ==
    /\ At(t, {"Load", "Len", "Copy", "Range", "HashAt", "Scan", "Again"})
    /\ LET k == Cur(t).k
           x == Cur(t).x
           s == th[t]
       IN  th' = [th EXCEPT ![t] =
                CASE k = "Load" ->
                        [s EXCEPT !.pc = @ + 1,
                                  !.acc = <<<<s.key, Lookup(data[x], s.key)>>>>,
                                  !.ret = Has(data[x], s.key)]
                  [] k = "Len" -> [s EXCEPT !.pc = @ + 1, !.n = Len(order[x])]
                  [] k = "Copy" -> [s EXCEPT !.pc = @ + 1, !.snap = order[x]]
                  [] k = "Range" -> [s EXCEPT !.pc = @ + 1, !.snap = order[x], !.i = 1]
                  [] k = "Scan" ->
                        [s EXCEPT !.pc = @ + 1, !.ret = s.snap[s.i] \in Range(order[x])]
                  [] k = "HashAt" ->
                        [s EXCEPT !.pc = @ + 1,
                                  !.key = GenerateHash(s.acc[s.call.index + 1][2])]
                  [] OTHER ->
                        [s EXCEPT !.j = @ + 1,
                                  !.pc = IF s.j + 1 < Len(s.acc)
                                         THEN @ - AgainBack ELSE @ + 1]]
    /\ UNCHANGED <<data, order, last, firsts, removed, mu, out>>

\* One turn of `for _, key := range order` of instance x, the range having
\* been evaluated into snap: what thread t can be afterwards.  A thread that
\* holds the lock of x reads snap[i]; one that does not (Union over
\* other.order) races with the writers of x and reads the element as it was
\* or as it is now.
VisitOutcomes(t) ==
    LET s == th[t]
        k == Cur(t).k
        x == Cur(t).x
        y == Cur(t).y
        mode == Cur(t).mode
        keys == {s.snap[s.i]}
                    \cup (IF s.i <= Len(order[x]) THEN {order[x][s.i]} ELSE {})
        Took(key) ==
            [s EXCEPT !.acc = Append(@, <<key, Lookup(data[x], key)>>),
                      !.torn = @ \/ ~Has(data[x], key),
                      !.i = @ + 1]
        Passed == [s EXCEPT !.i = @ + 1]
        Left(r) == [r EXCEPT !.pc = @ + 1]
    IN  IF s.i > Len(s.snap)
        THEN {[Left(s) EXCEPT !.ret = (k = "VisitProbe" /\ mode = "subset")]}
        ELSE UNION {
            CASE k = "VisitAll" -> {Took(key)}
              [] k = "VisitBreak" -> {Took(key), Left(Took(key))}
              [] k = "VisitIndex" ->
                    IF key = s.key
                    THEN {[Left(Took(key)) EXCEPT !.n = s.i - 1, !.ret = TRUE]}
                    ELSE {Passed}
              [] k = "VisitUnion" ->
                    IF Has(data[y], key) THEN {Passed} ELSE {Took(key)}
              [] mode = "absent" ->
                    IF Has(data[y], key) THEN {Passed} ELSE {Took(key)}
              [] mode = "present" ->
                    IF Has(data[y], key) THEN {Took(key)} ELSE {Passed}
              [] OTHER ->
                    IF Has(data[y], key) THEN {Passed}
                    ELSE {[Left(s) EXCEPT !.ret = FALSE]}
            : key \in keys}

VisitStep(t) ==
    /\ At(t, {"VisitAll", "VisitBreak", "VisitIndex", "VisitUnion", "VisitProbe"})
    /\ \E next \in VisitOutcomes(t) : th' = [th EXCEPT ![t] = next]
    /\ UNCHANGED <<data, order, last, firsts, removed, mu, out>>

\* The instance whose data a loop step of thread t reads besides the one it
\* ranges over.
ProbedMap(t) == IF Cur(t).k = "VisitUnion" THEN Cur(t).x ELSE Cur(t).y

\* A map read that runs while another thread writes the same map, the reader
\* holding no lock of it: the Go runtime may stop the process with
\* "concurrent map read and map write".
RacyFatal(t) ==
    /\ At(t, {"VisitUnion", "VisitProbe"})
    /\ th[t].i <= Len(th[t].snap)
    /\ mu[ProbedMap(t)].r[t] = 0
    /\ \E u \in Threads \ {t} :
            At(u, {"Store", "DeleteKey"}) /\ Cur(u).x = ProbedMap(t)
    /\ th' = [th EXCEPT ![t].fatal = TRUE]
    /\ UNCHANGED <<data, order, last, firsts, removed, mu, out>>

\* The body of UnmarshalJSON between Lock and Unlock, on some input and with
\* some order of the range over temp.
DecodeStep(t) ==
    /\ At(t, {"Decode"})
    /\ \E d \in Decodings :
          LET x == Cur(t).x
              r == UnmarshalJSON(Self(x), d[1], d[2])
          IN  /\ data' = [data EXCEPT ![x] = r.m.data]
              /\ order' = [order EXCEPT ![x] = r.m.order]
    /\ Advance(t)
    /\ UNCHANGED <<last, firsts, removed, mu, out>>

\* The end of one turn of the loop of a traversal, the callback having
\* returned: on to the next key, or out of the loop after the last key or,
\* in a traversal that can break, when the callback's result says so. The
\* loop of SafeSlice.Subset is left when Contains has returned false.
LoopStep(t) ==
    /\ At(t, {"Loop"})
    /\ LET s == th[t]
           back == IF "f" \in DOMAIN s.call
                   THEN Len(Prog(s.call.f)) ELSE Len(SliceContainsProg(s.call.other))
       IN  \E leave \in IF s.i + 1 > Len(s.snap) THEN {TRUE}
                         ELSE IF s.call.op = "SafeSlice.Subset" THEN {~s.ret}
                         ELSE IF s.call.op \in Breaking THEN BOOLEAN ELSE {FALSE} :
              th' = [th EXCEPT ![t].i = @ + 1,
                               ![t].pc = IF leave THEN @ + 1 ELSE @ - back,
                               ![t].ret = IF s.call.op = "SafeSlice.Subset"
                                          THEN s.i > Len(s.snap) \/ s.ret ELSE @]
    /\ UNCHANGED <<data, order, last, firsts, removed, mu, out>>

ThreadStep(t) ==
    \/ RLock(t)
    \/ RUnlock(t)
    \/ LockAnnounce(t)
    \/ LockAcquire(t)
    \/ Unlock(t)
    \/ WriteStep(t)
    \/ ReadStep(t)
    \/ VisitStep(t)
    \/ SkipStep(t)

NextThreads == \E t \in Threads : ThreadStep(t)

\* The maps that Add calls can have built, up to MaxFill keys, every value
\* true; Prefixes are those whose keys are 1, 2, ... in this order (every
\* other one is one of these with the keys renamed).
RECURSIVE AddAll(_, _)
AddAll(m, ks) ==
    IF ks = <<>> THEN m ELSE AddAll(Add(m, Head(ks), TRUE), Tail(ks))

Filled ==
    {AddAll(New, ks) :
        ks \in UNION {Perms(S) : S \in {X \in SUBSET KeySet : Cardinality(X) <= MaxFill}}}

Prefixes == {AddAll(New, [i \in 1..n |-> i]) : n \in 0..MaxFill}

\* The sets that SafeSet.Add calls can have built in the inner map.
RECURSIVE SetAddAll(_, _)
SetAddAll(m, vs) ==
    IF vs = <<>> THEN m
    ELSE SetAddAll(Add(m, GenerateHash(Head(vs)), Head(vs)), Tail(vs))

FilledSets == {SetAddAll(New, vs) : vs \in UNION {Perms(S) : S \in SUBSET ValSet}}

InitThreads(ms, others, ws, rs) ==
    /\ \E m \in ms, o \in others :
          /\ data = [id \in MapIds |-> IF id = "m" THEN m.data ELSE o.data]
          /\ order = [id \in MapIds |-> IF id = "m" THEN m.order ELSE o.order]
    /\ last = Call("New", NoKey, ZeroValue, FALSE, NoDoc, FALSE)
    /\ firsts = order["m"]
    /\ removed = {}
    /\ out = NoOut
    /\ mu = [id \in MapIds |-> FreeLock]
    /\ \E w \in ws, r \in rs : th = [t \in Threads |-> IF t = "w" THEN Start(w) ELSE Start(r)]

\* One Add or Delete and one reading call on the same map.
InitReaders == InitThreads(Prefixes, {New}, WriterCalls("m"), ReaderCalls("m"))
SpecReaders == InitReaders /\ [][NextThreads]_vars

\* One Add or Delete on either map and one set-algebra call m.Op(other).
InitAlgebra ==
    InitThreads(Prefixes, Filled, WriterCalls("m") \cup WriterCalls("other"), AlgebraCalls)
NextAlgebra == NextThreads \/ \E t \in Threads : RacyFatal(t)
SpecAlgebra == InitAlgebra /\ [][NextAlgebra]_vars

\* One mutating and one reading call on a SafeSet (on its inner map).
InitSet == InitThreads(FilledSets, {New}, SetWriterCalls, SetReaderCalls)
SpecSet == InitSet /\ [][NextThreads]_vars

\* A traversal of m whose callback calls Add, Delete or UnmarshalJSON on m,
\* and another goroutine that makes one such call or none.
InitCallback == InitThreads(Prefixes, {New}, MutatingCalls \cup {NoCall}, CallbackCalls)
NextCallback ==
    \E t \in Threads :
        \/ RLock(t)
        \/ RUnlock(t)
        \/ LockAnnounce(t)
        \/ LockAcquire(t)
        \/ Unlock(t)
        \/ WriteStep(t)
        \/ ReadStep(t)
        \/ SkipStep(t)
        \/ DecodeStep(t)
        \/ LoopStep(t)
SpecCallback == InitCallback /\ [][NextCallback]_vars

\* s.Subset(o) and o.Subset(s) running with s.Add(1) and o.Add(1), on slices
\* s and o of up to MaxFill elements each.
InitSliceLocks ==
    /\ \E n1, n2 \in 0..MaxFill :
          order = [id \in MapIds |-> [i \in 1..(IF id = "m" THEN n1 ELSE n2) |-> i]]
    /\ data = [id \in MapIds |-> EmptyData]
    /\ last = Call("New", NoKey, ZeroValue, FALSE, NoDoc, FALSE)
    /\ firsts = <<>>
    /\ removed = {}
    /\ out = NoOut
    /\ mu = [id \in MapIds |-> [w |-> NoThread, r |-> [t \in DOMAIN SliceCalls |-> 0]]]
    /\ th = [t \in DOMAIN SliceCalls |-> Start(SliceCalls[t])]

NextSliceLocks ==
    \E t \in DOMAIN SliceCalls :
        \/ RLock(t)
        \/ RUnlock(t)
        \/ LockAnnounce(t)
        \/ LockAcquire(t)
        \/ Unlock(t)
        \/ WriteStep(t)
        \/ ReadStep(t)
        \/ SkipStep(t)
        \/ LoopStep(t)
SpecSliceLocks == InitSliceLocks /\ [][NextSliceLocks]_vars

\* ================================================== sequential reading calls
\* What a reading call hands back is a record: self is the receiver as the
\* call left it, ret the value returned, and ptr says whether a returned map
\* is a new instance ("new") or the receiver itself ("self").

\* Clone returning the receiver itself instead of a new instance.
CloneAlias(m) == [self |-> m, ret |-> m, ptr |-> "self"]

\* Clone: a New map, then clone.Add(key, m.data[key]) for each key of order.
Clone(m) ==
    LET n == Len(m.order)
        clone[i \in 0..n] ==
            IF i = 0 THEN New
            ELSE Add(clone[i - 1], m.order[i], Lookup(m.data, m.order[i]))
    IN  [self |-> m, ret |-> clone[n], ptr |-> "new"]

\* Instance id becomes m; the other instance stays.
Put(id, m) ==
    /\ data' = [data EXCEPT ![id] = m.data]
    /\ order' = [order EXCEPT ![id] = m.order]

\* m.Add(key, value) and m.Delete(key) before any reading call.
QAdd ==
    /\ out = NoOut
    /\ \E key \in KeySet, value \in ValSet : Put("m", Add(Self("m"), key, value))
    /\ UNCHANGED <<last, firsts, removed, mu, th, out>>

QDelete ==
    /\ out = NoOut
    /\ \E key \in KeySet : Put("m", Delete(Self("m"), key))
    /\ UNCHANGED <<last, firsts, removed, mu, th, out>>

\* c := m.Clone(). A new instance is kept as instance "other"; out.ref is the
\* instance the handle c denotes.
CloneCall ==
    /\ out = NoOut
    /\ LET r == Clone(Self("m"))
       IN  /\ IF r.ptr = "new"
              THEN /\ data' = [data EXCEPT !["m"] = r.self.data, !["other"] = r.ret.data]
                   /\ order' = [order EXCEPT !["m"] = r.self.order, !["other"] = r.ret.order]
              ELSE Put("m", r.self)
           /\ out' = [op |-> "Clone", after |-> 0, on |-> "none",
                      ref |-> IF r.ptr = "new" THEN "other" ELSE "m"]
    /\ UNCHANGED <<last, firsts, removed, mu, th>>

\* The instance behind a handle: the source m or the clone c.
Handles == {"source", "clone"}
Target(h) == IF h = "source" THEN "m" ELSE out.ref

\* m.Add / c.Add and m.Delete / c.Delete after the Clone.
AddAfterClone ==
    /\ out.op = "Clone" /\ out.after < MaxAfter
    /\ \E h \in Handles, key \in KeySet, value \in ValSet :
          /\ Put(Target(h), Add(Self(Target(h)), key, value))
          /\ out' = [out EXCEPT !.after = @ + 1, !.on = h]
    /\ UNCHANGED <<last, firsts, removed, mu, th>>

DeleteAfterClone ==
    /\ out.op = "Clone" /\ out.after < MaxAfter
    /\ \E h \in Handles, key \in KeySet :
          /\ Put(Target(h), Delete(Self(Target(h)), key))
          /\ out' = [out EXCEPT !.after = @ + 1, !.on = h]
    /\ UNCHANGED <<last, firsts, removed, mu, th>>

NextClone == QAdd \/ QDelete \/ CloneCall \/ AddAfterClone \/ DeleteAfterClone
SpecClone == Init /\ [][NextClone]_vars

\* ---------------------------------------------------------------- callbacks
\* The entries of a map, as the (key, value) pairs a callback is called with.
Entries(m) == {<<k, m.data[k]>> : k \in DOMAIN m.data}

\* The callbacks a traversal of m can be given: predicate(key, value),
\* f(key, value) and reducer(accum, key, value), each by what it returns for
\* the entries of m.
Predicates(m) == [Entries(m) -> BOOLEAN]
Functions(m) == [Entries(m) -> ValSet]
Reducers(m) == [ValSet \X Entries(m) -> ValSet]

\* The call of a callback with argument x (the zero value where the callback
\* is not defined).
Invoke(f, x) == IF x \in DOMAIN f THEN f[x] ELSE ZeroValue

\* The argument of the callback at position i of the loop over m.order, read
\* from the receiver as the loop has left it.
Arg(m, self, i) == <<m.order[i], Lookup(self.data, m.order[i])>>

\* Map storing the entry's own value instead of f's result.
MapKeepsValue(m, f) ==
    LET n == Len(m.order)
        st[i \in 0..n] ==
            IF i = 0 THEN [new |-> New, calls |-> <<>>]
            ELSE LET p == st[i - 1]
                     a == Arg(m, m, i)
                 IN  [new |-> Add(p.new, a[1], a[2]), calls |-> Append(p.calls, a)]
    IN  [self |-> m, ret |-> st[n].new, ptr |-> "new", calls |-> st[n].calls]

\* Map: newMap.Add(key, f(key, m.data[key])) for each key of order.
Map(m, f) ==
    LET n == Len(m.order)
        st[i \in 0..n] ==
            IF i = 0 THEN [new |-> New, calls |-> <<>>]
            ELSE LET p == st[i - 1]
                     a == Arg(m, m, i)
                 IN  [new |-> Add(p.new, a[1], Invoke(f, a)), calls |-> Append(p.calls, a)]
    IN  [self |-> m, ret |-> st[n].new, ptr |-> "new", calls |-> st[n].calls]

\* Filter deleting the rejected entries from the receiver and returning it.
FilterInPlace(m, predicate) ==
    LET n == Len(m.order)
        st[i \in 0..n] ==
            IF i = 0 THEN [self |-> m, calls |-> <<>>]
            ELSE LET p == st[i - 1]
                     a == Arg(m, p.self, i)
                 IN  [self |-> IF Invoke(predicate, a) THEN p.self ELSE Delete(p.self, a[1]),
                      calls |-> Append(p.calls, a)]
    IN  [self |-> st[n].self, ret |-> st[n].self, ptr |-> "self", calls |-> st[n].calls]

\* Filter leaving its loop at the first rejected entry.
FilterStopsAtReject(m, predicate) ==
    LET n == Len(m.order)
        st[i \in 0..n] ==
            IF i = 0 THEN [new |-> New, calls |-> <<>>, stop |-> FALSE]
            ELSE LET p == st[i - 1]
                     a == Arg(m, m, i)
                 IN  IF p.stop THEN p
                     ELSE [new |-> IF Invoke(predicate, a) THEN Add(p.new, a[1], a[2]) ELSE p.new,
                           calls |-> Append(p.calls, a),
                           stop |-> ~Invoke(predicate, a)]
    IN  [self |-> m, ret |-> st[n].new, ptr |-> "new", calls |-> st[n].calls]

\* Filter: filteredMap.Add(key, m.data[key]) for each key of order whose
\* entry the predicate accepts.
Filter(m, predicate) ==
    LET n == Len(m.order)
        st[i \in 0..n] ==
            IF i = 0 THEN [new |-> New, calls |-> <<>>]
            ELSE LET p == st[i - 1]
                     a == Arg(m, m, i)
                 IN  [new |-> IF Invoke(predicate, a) THEN Add(p.new, a[1], a[2]) ELSE p.new,
                      calls |-> Append(p.calls, a)]
    IN  [self |-> m, ret |-> st[n].new, ptr |-> "new", calls |-> st[n].calls]

\* Each: f(key, m.data[key]) for each key of order; returns the receiver.
Each(m) ==
    [self |-> m, ret |-> m, ptr |-> "self",
     calls |-> [i \in 1..Len(m.order) |-> Arg(m, m, i)]]

\* Reduce folding from the last entry to the first.
ReduceRight(m, reducer, initial) ==
    LET n == Len(m.order)
        st[i \in 0..n] ==
            IF i = 0 THEN [accum |-> initial, calls |-> <<>>]
            ELSE LET p == st[i - 1]
                     a == Arg(m, m, n + 1 - i)
                 IN  [accum |-> Invoke(reducer, <<p.accum, a>>),
                      calls |-> Append(p.calls, <<p.accum, a[1], a[2]>>)]
    IN  [self |-> m, ret |-> st[n].accum, ptr |-> "value", calls |-> st[n].calls]

\* Reduce: accum = reducer(accum, key, m.data[key]) for each key of order,
\* from accum = initial.
Reduce(m, reducer, initial) ==
    LET n == Len(m.order)
        st[i \in 0..n] ==
            IF i = 0 THEN [accum |-> initial, calls |-> <<>>]
            ELSE LET p == st[i - 1]
                     a == Arg(m, m, i)
                 IN  [accum |-> Invoke(reducer, <<p.accum, a>>),
                      calls |-> Append(p.calls, <<p.accum, a[1], a[2]>>)]
    IN  [self |-> m, ret |-> st[n].accum, ptr |-> "value", calls |-> st[n].calls]

\* The loop shared by All, Any, Find and TakeWhile: the predicate is called
\* on the entries of order, in order, until it first returns the value
\* until; at is the position where that happened (0 when it never did).
Scan(m, predicate, until) ==
    LET n == Len(m.order)
        st[i \in 0..n] ==
            IF i = 0 THEN [at |-> 0, calls |-> <<>>]
            ELSE LET p == st[i - 1]
                     a == Arg(m, m, i)
                 IN  IF p.at # 0 THEN p
                     ELSE [at |-> IF Invoke(predicate, a) = until THEN i ELSE 0,
                           calls |-> Append(p.calls, a)]
    IN  st[n]

\* All calling the predicate on every entry, also after one has failed.
AllVisitsEvery(m, predicate) ==
    [self |-> m, ptr |-> "value",
     ret |-> \A i \in 1..Len(m.order) : Invoke(predicate, Arg(m, m, i)),
     calls |-> [i \in 1..Len(m.order) |-> Arg(m, m, i)]]

\* All: false at the first entry the predicate rejects, true after the loop.
All(m, predicate) ==
    LET s == Scan(m, predicate, FALSE)
    IN  [self |-> m, ret |-> s.at = 0, ptr |-> "value", calls |-> s.calls]

\* Any (a name the TLC module takes): true at the first entry the predicate
\* accepts, false after the loop.
AnyEntry(m, predicate) ==
    LET s == Scan(m, predicate, TRUE)
    IN  [self |-> m, ret |-> s.at # 0, ptr |-> "value", calls |-> s.calls]

\* Find keeping the last match instead of returning at the first.
FindLast(m, predicate) ==
    LET hits == {i \in 1..Len(m.order) : Invoke(predicate, Arg(m, m, i))}
        at == IF hits = {} THEN 0 ELSE CHOOSE i \in hits : \A j \in hits : j <= i
    IN  [self |-> m, ptr |-> "value",
         ret |-> IF at = 0 THEN <<NoKey, ZeroValue, FALSE>>
                 ELSE <<m.order[at], Lookup(m.data, m.order[at]), TRUE>>,
         calls |-> [i \in 1..Len(m.order) |-> Arg(m, m, i)]]

\* Find: (key, m.data[key], true) at the first entry the predicate accepts,
\* ("", zero value, false) after the loop.
Find(m, predicate) ==
    LET s == Scan(m, predicate, TRUE)
    IN  [self |-> m, ptr |-> "value",
         ret |-> IF s.at = 0 THEN <<NoKey, ZeroValue, FALSE>>
                 ELSE <<m.order[s.at], Lookup(m.data, m.order[s.at]), TRUE>>,
         calls |-> s.calls]

\* The map built by newMap.Add(key, m.data[key]) for the positions from..to
\* of order.
RECURSIVE AddRange(_, _, _, _)
AddRange(new, m, from, to) ==
    IF from > to THEN new
    ELSE AddRange(Add(new, m.order[from], Lookup(m.data, m.order[from])), m, from + 1, to)

\* TakeWhile skipping a rejected entry and going on (what Filter does).
TakeWhileSkips(m, predicate) ==
    [self |-> m, ret |-> Filter(m, predicate).ret, ptr |-> "new",
     calls |-> Filter(m, predicate).calls]

\* TakeWhile adding the rejected entry before it leaves the loop.
TakeWhileInclusive(m, predicate) ==
    LET s == Scan(m, predicate, FALSE)
        to == IF s.at = 0 THEN Len(m.order) ELSE s.at
    IN  [self |-> m, ret |-> AddRange(New, m, 1, to), ptr |-> "new", calls |-> s.calls]

\* TakeWhile: the entries before the first one the predicate rejects.
TakeWhile(m, predicate) ==
    LET s == Scan(m, predicate, FALSE)
        to == IF s.at = 0 THEN Len(m.order) ELSE s.at - 1
    IN  [self |-> m, ret |-> AddRange(New, m, 1, to), ptr |-> "new", calls |-> s.calls]

\* DropWhile leaving out the first rejected entry itself.
DropWhileExclusive(m, predicate) ==
    LET s == Scan(m, predicate, FALSE)
        from == IF s.at = 0 THEN Len(m.order) + 1 ELSE s.at + 1
    IN  [self |-> m, ret |-> AddRange(New, m, from, Len(m.order)), ptr |-> "new",
         calls |-> s.calls]

\* DropWhile skipping every accepted entry, also after a rejected one.
DropWhileSkips(m, predicate) ==
    LET n == Len(m.order)
        st[i \in 0..n] ==
            IF i = 0 THEN New
            ELSE IF Invoke(predicate, Arg(m, m, i)) THEN st[i - 1]
                 ELSE Add(st[i - 1], m.order[i], Lookup(m.data, m.order[i]))
    IN  [self |-> m, ret |-> st[n], ptr |-> "new",
         calls |-> [i \in 1..n |-> Arg(m, m, i)]]

\* DropWhile: the entries from the first one the predicate rejects on; the
\* predicate is not called again once dropping is false.
DropWhile(m, predicate) ==
    LET s == Scan(m, predicate, FALSE)
        from == IF s.at = 0 THEN Len(m.order) + 1 ELSE s.at
    IN  [self |-> m, ret |-> AddRange(New, m, from, Len(m.order)), ptr |-> "new",
         calls |-> s.calls]

\* ---------------------------------------------------------- set operations
\* Union without the test of m.data: a key of both maps gets other's value.
UnionOtherWins(m, other) ==
    LET mine == AddRange(New, m, 1, Len(m.order))
    IN  [self |-> m, other |-> other, ptr |-> "new",
         ret |-> AddRange(mine, other, 1, Len(other.order))]

\* Union: every entry of m, then the entries of other.order whose key m.data
\* does not hold, with other's value.
Union(m, other) ==
    LET mine == AddRange(New, m, 1, Len(m.order))
        n == Len(other.order)
        st[i \in 0..n] ==
            IF i = 0 THEN mine
            ELSE IF Has(m.data, other.order[i]) THEN st[i - 1]
                 ELSE Add(st[i - 1], other.order[i], Lookup(other.data, other.order[i]))
    IN  [self |-> m, other |-> other, ret |-> st[n], ptr |-> "new"]

\* The loop of Difference (keep = FALSE) and Intersection (keep = TRUE): the
\* entries of m whose key other.data holds (or does not hold).
Select(m, other, keep) ==
    LET n == Len(m.order)
        st[i \in 0..n] ==
            IF i = 0 THEN New
            ELSE IF Has(other.data, m.order[i]) = keep
                 THEN Add(st[i - 1], m.order[i], Lookup(m.data, m.order[i]))
                 ELSE st[i - 1]
    IN  st[n]

Difference(m, other) ==
    [self |-> m, other |-> other, ret |-> Select(m, other, FALSE), ptr |-> "new"]

\* Intersection storing other's value for a shared key.
IntersectionOtherValues(m, other) ==
    LET n == Len(m.order)
        st[i \in 0..n] ==
            IF i = 0 THEN New
            ELSE IF Has(other.data, m.order[i])
                 THEN Add(st[i - 1], m.order[i], Lookup(other.data, m.order[i]))
                 ELSE st[i - 1]
    IN  [self |-> m, other |-> other, ret |-> st[n], ptr |-> "new"]

Intersection(m, other) ==
    [self |-> m, other |-> other, ret |-> Select(m, other, TRUE), ptr |-> "new"]

\* Subset: false at the first key of order that other.data does not hold.
Subset(m, other) ==
    [self |-> m, other |-> other, ptr |-> "value",
     ret |-> \A i \in 1..Len(m.order) : Has(other.data, m.order[i])]

\* Superset calling m.Subset(other).
SupersetAsSubset(m, other) ==
    [self |-> m, other |-> other, ptr |-> "value",
     ret |-> \A i \in 1..Len(m.order) : Has(other.data, m.order[i])]

\* Superset: other.Subset(m).
Superset(m, other) ==
    LET r == Subset(other, m)
    IN  [self |-> r.other, other |-> r.self, ret |-> r.ret, ptr |-> "value"]

\* ------------------------------------------------- reading calls as actions
\* No callback, no argument map, no key.
NoCallback == << >>

\* A reading call on m returns r: the receiver becomes what the call left of
\* it, and out records the call (the receiver before it, its callback f, its
\* initial value, its key, its argument map) with r.
Return(op, f, initial, key, arg, r) ==
    /\ out = NoOut
    /\ Put("m", r.self)
    /\ out' = [op |-> op, m |-> Self("m"), f |-> f, initial |-> initial,
               key |-> key, arg |-> arg, r |-> r]
    /\ UNCHANGED <<last, firsts, removed, mu, th>>

\* A result that is a plain value computed without a callback.
Plain(m, ret) == [self |-> m, ret |-> ret, ptr |-> "value", calls |-> <<>>]

DoGet ==
    \E key \in KeySet :
        Return("Get", NoCallback, ZeroValue, key, New, Plain(Self("m"), Get(Self("m"), key)))

DoIndex ==
    \E key \in KeySet :
        Return("Index", NoCallback, ZeroValue, key, New, Plain(Self("m"), Index(Self("m"), key)))

DoMap ==
    \E f \in Functions(Self("m")) :
        Return("Map", f, ZeroValue, NoKey, New, Map(Self("m"), f))

DoFilter ==
    \E predicate \in Predicates(Self("m")) :
        Return("Filter", predicate, ZeroValue, NoKey, New, Filter(Self("m"), predicate))

DoEach == Return("Each", NoCallback, ZeroValue, NoKey, New, Each(Self("m")))

DoReduce ==
    \E reducer \in Reducers(Self("m")), initial \in ValSet :
        Return("Reduce", reducer, initial, NoKey, New, Reduce(Self("m"), reducer, initial))

DoAll ==
    \E predicate \in Predicates(Self("m")) :
        Return("All", predicate, ZeroValue, NoKey, New, All(Self("m"), predicate))

DoAny ==
    \E predicate \in Predicates(Self("m")) :
        Return("Any", predicate, ZeroValue, NoKey, New, AnyEntry(Self("m"), predicate))

DoFind ==
    \E predicate \in Predicates(Self("m")) :
        Return("Find", predicate, ZeroValue, NoKey, New, Find(Self("m"), predicate))

DoTakeWhile ==
    \E predicate \in Predicates(Self("m")) :
        Return("TakeWhile", predicate, ZeroValue, NoKey, New, TakeWhile(Self("m"), predicate))

DoDropWhile ==
    \E predicate \in Predicates(Self("m")) :
        Return("DropWhile", predicate, ZeroValue, NoKey, New, DropWhile(Self("m"), predicate))

\* The set operations m.Op(other), other a map that Add calls have built
\* (with the keys 1, 2, ...: m ranges over the maps of every key order).
DoUnion ==
    \E other \in Prefixes :
        Return("Union", NoCallback, ZeroValue, NoKey, other, Union(Self("m"), other))

DoDifference ==
    \E other \in Prefixes :
        Return("Difference", NoCallback, ZeroValue, NoKey, other, Difference(Self("m"), other))

DoIntersection ==
    \E other \in Prefixes :
        Return("Intersection", NoCallback, ZeroValue, NoKey, other, Intersection(Self("m"), other))

DoSubset ==
    \E other \in Prefixes :
        Return("Subset", NoCallback, ZeroValue, NoKey, other, Subset(Self("m"), other))

DoSuperset ==
    \E other \in Prefixes :
        Return("Superset", NoCallback, ZeroValue, NoKey, other, Superset(Self("m"), other))

\* Add and Delete calls in any sequence, then one reading call.
NextQuery ==
    \/ QAdd \/ QDelete \/ DoGet \/ DoIndex
    \/ DoMap \/ DoFilter \/ DoEach \/ DoReduce
    \/ DoAll \/ DoAny \/ DoFind \/ DoTakeWhile \/ DoDropWhile
    \/ DoUnion \/ DoDifference \/ DoIntersection \/ DoSubset \/ DoSuperset
SpecQuery == Init /\ [][NextQuery]_vars

\* ------------------------------------------------------- JSON round trip
\* A key that is not valid UTF-8 (such as "\xff"). encoding/json writes and
\* reads strings coerced to valid UTF-8, every invalid byte replaced by
\* U+FFFD; the string that is U+FFFD alone is key NumKeys.
BadKey == NumKeys + 1
AllKeys == KeySet \cup {BadKey}
Utf8(key) == IF key = BadKey THEN NumKeys ELSE key

\* The elements of a set of keys in ascending order (json.Marshal writes the
\* fields of a map sorted by key).
RECURSIVE SortedKeys(_)
SortedKeys(S) ==
    IF S = {} THEN <<>>
    ELSE LET least == CHOOSE x \in S : \A y \in S : x <= y
         IN  <<least>> \o SortedKeys(S \ {least})

\* MarshalJSON leaving out the entries that hold the zero value.
MarshalJSONOmitsZero(m) ==
    LET ks == SortedKeys({k \in Range(m.order) : Lookup(m.data, k) # ZeroValue})
    IN  [err |-> FALSE, bytes |-> [i \in 1..Len(ks) |-> <<Utf8(ks[i]), Lookup(m.data, ks[i])>>]]

\* MarshalJSON: jsonMap[key] = m.data[key] for each key of order, then
\* json.Marshal(jsonMap): the fields sorted by key, each key written as
\* valid UTF-8. bytes is the document as its sequence of fields.
MarshalJSON(m) ==
    LET ks == SortedKeys(Range(m.order))
    IN  [err |-> FALSE, bytes |-> [i \in 1..Len(ks) |-> <<Utf8(ks[i]), Lookup(m.data, ks[i])>>]]

\* The document that json.Unmarshal reads from these bytes: of two fields
\* with the same key the later one stays.
Parse(bytes) ==
    LET names == {bytes[i][1] : i \in 1..Len(bytes)}
        lastAt(k) == CHOOSE i \in 1..Len(bytes) :
                        bytes[i][1] = k /\ \A j \in 1..Len(bytes) : bytes[j][1] = k => j <= i
    IN  [kind |-> "object", fields |-> [k \in names |-> bytes[lastAt(k)][2]]]

\* m.Add(key, value) and m.Delete(key), the keys also not valid UTF-8, on a
\* map of up to MaxFill entries.
JAdd ==
    /\ out = NoOut
    /\ \E key \in AllKeys, value \in ValSet :
          /\ Has(data["m"], key) \/ Len(order["m"]) < MaxFill
          /\ Put("m", Add(Self("m"), key, value))
    /\ UNCHANGED <<last, firsts, removed, mu, th, out>>

JDelete ==
    /\ out = NoOut
    /\ \E key \in AllKeys : Put("m", Delete(Self("m"), key))
    /\ UNCHANGED <<last, firsts, removed, mu, th, out>>

\* b, err := m.MarshalJSON(); n := New(); n.UnmarshalJSON(b), the loop of
\* UnmarshalJSON ranging over the decoded map in the order perm.
RoundTrip ==
    /\ out = NoOut
    /\ LET b == MarshalJSON(Self("m"))
           doc == Parse(b.bytes)
       IN  \E perm \in Perms(DOMAIN doc.fields) :
              out' = [op |-> "RoundTrip", m |-> Self("m"), b |-> b,
                      r |-> UnmarshalJSON(New, doc, perm)]
    /\ UNCHANGED <<data, order, last, firsts, removed, mu, th>>

NextJSON == JAdd \/ JDelete \/ RoundTrip
SpecJSON == Init /\ [][NextJSON]_vars

\* ------------------------------------------------------ SafeSet, in sequence
\* The number of decimal texts from which the values of a SafeSet[any] are
\* drawn.
NumTexts == 2

\* The values of a SafeSet[any]: the int n and the string of the decimal
\* digits of n, which are different values of type any.
Dynamic == {"int", "string"} \X (1..NumTexts)

\* fmt.Sprintf("%v", value): the decimal digits of an int, the characters of
\* a string.
Sprintf(value) == value[2]

\* hex(sha256(text)): one digest for each text.
Sha256Hex(text) == <<"sha256", text>>

\* shared.GenerateHash[any]: the digest of the formatted value.
GenerateHashAny(value) == Sha256Hex(Sprintf(value))

\* SafeSet.Add: data.Add(GenerateHash(value), value).
SetAdd(s, value) == Add(s, GenerateHashAny(value), value)

\* SafeSet.Values and SafeSet.Size: those of data.
SetValues(s) == Values(s)
SetSize(s) == Size(s)

\* The history of first additions, extended by the values vs in turn.
RECURSIVE Noted(_, _)
Noted(seen, vs) ==
    IF vs = <<>> THEN seen
    ELSE Noted(IF Head(vs) \in Range(seen) THEN seen ELSE Append(seen, Head(vs)), Tail(vs))

\* SafeSet.Map: for each value of the slice s.Values() returned before the
\* loop, s.Add(f(value)); return s. added lists the values passed to Add.
SetMap(s, f) ==
    LET vs == SetValues(s)
        st[i \in 0..Len(vs)] == IF i = 0 THEN s ELSE SetAdd(st[i - 1], f[vs[i]])
    IN  [self |-> st[Len(vs)], ret |-> st[Len(vs)], ptr |-> "self",
         added |-> [i \in 1..Len(vs) |-> f[vs[i]]]]

\* SafeSet.DropWhile: result := New(); for each value of s.Values(), continue
\* when predicate(value), else result.Add(value); return result.
SetDropWhile(s, predicate) ==
    LET vs == SetValues(s)
        st[i \in 0..Len(vs)] ==
            IF i = 0 THEN New
            ELSE IF predicate[vs[i]] THEN st[i - 1] ELSE SetAdd(st[i - 1], vs[i])
    IN  [self |-> s, ret |-> st[Len(vs)], ptr |-> "new"]

\* s.Add(value), before any other call, of up to MaxFill distinct values.
DoSetAdd ==
    /\ out.op \in {"none", "SafeSet.Add"}
    /\ \E value \in Dynamic :
          LET r == SetAdd(Self("m"), value)
          IN  /\ value \in Range(firsts) \/ Len(firsts) < MaxFill
              /\ Put("m", r)
              /\ firsts' = Noted(firsts, <<value>>)
              /\ out' = [op |-> "SafeSet.Add", m |-> Self("m"), arg |-> value, r |-> r]
    /\ UNCHANGED <<last, removed, mu, th>>

\* s.Map(f), once.
DoSetMap ==
    /\ out.op \in {"none", "SafeSet.Add"}
    /\ \E f \in [Range(SetValues(Self("m"))) -> Dynamic] :
          LET r == SetMap(Self("m"), f)
          IN  /\ Put("m", r.self)
              /\ firsts' = Noted(firsts, r.added)
              /\ out' = [op |-> "SafeSet.Map", m |-> Self("m"), f |-> f, r |-> r]
    /\ UNCHANGED <<last, removed, mu, th>>

\* s.DropWhile(predicate), once.
DoSetDropWhile ==
    /\ out.op \in {"none", "SafeSet.Add"}
    /\ \E predicate \in [Range(SetValues(Self("m"))) -> BOOLEAN] :
          out' = [op |-> "SafeSet.DropWhile", m |-> Self("m"), f |-> predicate,
                  r |-> SetDropWhile(Self("m"), predicate)]
    /\ UNCHANGED <<data, order, last, firsts, removed, mu, th>>

NextSafeSet == DoSetAdd \/ DoSetMap \/ DoSetDropWhile
SpecSafeSet == Init /\ [][NextSafeSet]_vars

\* ---------------------------------------------------- SafeSlice, in sequence
\* The elements of a SafeSlice[T]: T is comparable, here the integers of
\* KeySet. data["m"] is the slice s.data of the receiver s, data["other"]
\* that of the argument.
Items == KeySet

\* SafeSlice.Contains: some element of data equals item.
SliceContains(s, item) == \E i \in 1..Len(s) : s[i] = item

\* SafeSlice.Union: result gets every item of s.data, then each item of
\* other.data that result does not contain yet.
SliceUnion(s, other) ==
    LET st[i \in 0..Len(other)] ==
            IF i = 0 THEN s
            ELSE IF ~SliceContains(st[i - 1], other[i])
                 THEN Append(st[i - 1], other[i]) ELSE st[i - 1]
    IN  st[Len(other)]

\* SafeSlice.Difference: result gets each item of other.data that s does not
\* contain.
SliceDifference(s, other) ==
    LET st[i \in 0..Len(other)] ==
            IF i = 0 THEN <<>>
            ELSE IF ~SliceContains(s, other[i])
                 THEN Append(st[i - 1], other[i]) ELSE st[i - 1]
    IN  st[Len(other)]

\* x.Add(item) on either slice: data = append(data, item), up to MaxFill items.
DoSliceAdd ==
    /\ out = NoOut
    /\ \E id \in MapIds, item \in Items :
          /\ Len(data[id]) < MaxFill
          /\ data' = [data EXCEPT ![id] = Append(@, item)]
    /\ UNCHANGED <<order, last, firsts, removed, mu, th, out>>

\* s.Union(other) and s.Difference(other), once.
SliceReturn(op, r) ==
    /\ out = NoOut
    /\ out' = [op |-> op, s |-> data["m"], other |-> data["other"], r |-> r]
    /\ UNCHANGED <<data, order, last, firsts, removed, mu, th>>

DoSliceUnion == SliceReturn("SafeSlice.Union", SliceUnion(data["m"], data["other"]))
DoSliceDifference ==
    SliceReturn("SafeSlice.Difference", SliceDifference(data["m"], data["other"]))

NextSlice == DoSliceAdd \/ DoSliceUnion \/ DoSliceDifference
SpecSlice == Init /\ [][NextSlice]_vars

\* ------------------------------------------------------------ statistical
\* The functions of package statistical on the caller's slice data["m"], a
\* slice of the whole numbers of KeySet ([]int for the generic functions,
\* []float64 for Mean, Variance and StandardDeviation). A call hands back a
\* record: s is the caller's slice as the call left it, err whether the
\* error returned is non-nil, panic whether the call ended in a run-time
\* panic instead of returning, ret the value returned, reads the indices
\* (from 0) at which Percentile indexes the slice after sorting it. A
\* fraction is the pair <<numerator, denominator>>, <<0, 0>> being NaN.

\* sort.Slice(s, func(i, j int) bool { return s[i] < s[j] }): the elements of
\* s in ascending order, written into s itself.
RECURSIVE SortSlice(_)
SortSlice(s) ==
    IF s = <<>> THEN <<>>
    ELSE LET i == CHOOSE i \in 1..Len(s) : \A j \in 1..Len(s) : s[i] <= s[j]
         IN  <<s[i]>> \o SortSlice(SubSeq(s, 1, i - 1) \o SubSeq(s, i + 1, Len(s)))

Returned(s, err, ret) == [s |-> s, err |-> err, panic |-> FALSE, ret |-> ret, reads |-> {}]

\* Frequency: freq[item]++ for each item.
Frequency(items) ==
    Returned(items, FALSE,
             [item \in Range(items) |->
                Cardinality({i \in 1..Len(items) : items[i] = item})])

\* Median: an error when n == 0; sort; the mean of the two middle elements
\* when n is even, else the middle element.
Median(s) ==
    LET n == Len(s)
        t == SortSlice(s)
    IN  IF n = 0 THEN Returned(s, TRUE, 0)
        ELSE IF n % 2 = 0 THEN Returned(t, FALSE, (t[n \div 2] + t[(n \div 2) + 1]) \div 2)
        ELSE Returned(t, FALSE, t[((n - 1) \div 2) + 1])

\* Range: an error when n == 0; sort; s[0] and s[n-1].
StatRange(s) ==
    LET t == SortSlice(s)
    IN  IF Len(s) = 0 THEN Returned(s, TRUE, <<0, 0>>)
        ELSE Returned(t, FALSE, <<t[1], t[Len(s)]>>)

\* Mean: sum / float64(len(s)).
RECURSIVE Sum(_)
Sum(s) == IF s = <<>> THEN 0 ELSE Head(s) + Sum(Tail(s))
Mean(s) == Returned(s, FALSE, <<Sum(s), Len(s)>>)

\* Variance: an error when n < 2; the sum of (x - mean)^2 over n - 1.
Variance(s) ==
    LET n == Len(s)
    IN  IF n < 2 THEN Returned(s, TRUE, <<0, 1>>)
        ELSE Returned(s, FALSE,
                      <<Sum([i \in 1..n |-> (n * s[i] - Sum(s)) * (n * s[i] - Sum(s))]),
                        n * n * (n - 1)>>)

\* StandardDeviation: the error of Variance, else math.Sqrt(variance).
StandardDeviation(s) ==
    LET v == Variance(s)
    IN  IF v.err THEN Returned(s, TRUE, <<0, 1>>)
        ELSE Returned(s, FALSE, [sqrt |-> v.ret])

\* The percentages passed to Percentile: 0, 0.5, 1, 50 and 100.
Percents == {<<0, 1>>, <<1, 2>>, <<1, 1>>, <<50, 1>>, <<100, 1>>}

\* Percentile: an error when n == 0; sort; rank := float64(n-1) * p;
\* idx := int(rank); s[n-1] when idx == n-1, else T(s[idx]*(1-frac) +
\* s[idx+1]*frac). Indexing at idx >= n panics.
Percentile(s, p) ==
    LET n == Len(s)
        t == SortSlice(s)
        idx == ((n - 1) * p[1]) \div p[2]
        part == ((n - 1) * p[1]) % p[2]
    IN  IF n = 0 THEN Returned(s, TRUE, 0)
        ELSE IF idx = n - 1 THEN [Returned(t, FALSE, t[n]) EXCEPT !.reads = {n - 1}]
        ELSE IF idx >= n
             THEN [s |-> t, err |-> FALSE, panic |-> TRUE, ret |-> 0, reads |-> {idx}]
        ELSE [Returned(t, FALSE, (t[idx + 1] * (p[2] - part) + t[idx + 2] * part) \div p[2])
                EXCEPT !.reads = {idx, idx + 1}]

\* s = append(s, x) by the caller, up to MaxFill elements.
DoAppend ==
    /\ out = NoOut
    /\ Len(data["m"]) < MaxFill
    /\ \E x \in KeySet : data' = [data EXCEPT !["m"] = Append(@, x)]
    /\ UNCHANGED <<order, last, firsts, removed, mu, th, out>>

\* One call of a function of the package on the caller's slice.
StatReturn(op, p, r) ==
    /\ out = NoOut
    /\ data' = [data EXCEPT !["m"] = r.s]
    /\ out' = [op |-> op, s |-> data["m"], p |-> p, r |-> r]
    /\ UNCHANGED <<order, last, firsts, removed, mu, th>>

DoFrequency == StatReturn("Frequency", <<0, 1>>, Frequency(data["m"]))
DoMedian == StatReturn("Median", <<0, 1>>, Median(data["m"]))
DoRange == StatReturn("Range", <<0, 1>>, StatRange(data["m"]))
DoMean == StatReturn("Mean", <<0, 1>>, Mean(data["m"]))
DoVariance == StatReturn("Variance", <<0, 1>>, Variance(data["m"]))
DoStandardDeviation ==
    StatReturn("StandardDeviation", <<0, 1>>, StandardDeviation(data["m"]))
DoPercentile == \E p \in Percents : StatReturn("Percentile", p, Percentile(data["m"], p))

NextStat ==
    \/ DoAppend
    \/ DoFrequency
    \/ DoMedian
    \/ DoRange
    \/ DoMean
    \/ DoVariance
    \/ DoStandardDeviation
    \/ DoPercentile
SpecStat == Init /\ [][NextStat]_vars

\* ================================================================= claims
\* The position of key in the sequence o (0 when o does not hold it).
Pos(o, key) ==
    IF key \in Range(o) THEN CHOOSE i \in 1..Len(o) : o[i] = key ELSE 0

\* Invariant I1 of a map: order holds exactly the keys of data, each once.
I1(m) == Range(m.order) = DOMAIN m.data /\ NoDup(m.order)

\* C1: in every state reached by Add, Delete and successful UnmarshalJSON
\* calls from New(), order contains exactly the keys of entries, none twice.
C1_OrderMatchesEntries == I1(Self("m"))

\* C2: after any sequence of Add calls on a new map, Keys() is the keys in
\* the order of their first Add, and Get returns the value of the latest Add
\* of a key (so an Add of a present key replaces the value and leaves Keys()
\* as it was).
C2_KeysInFirstAddOrder ==
    /\ Keys(Self("m")) = firsts
    /\ last.op = "Add" => Get(Self("m"), last.key) = <<last.value, TRUE>>

\* C2 witness: a key other than the newest was added again, with two or more
\* keys in the map.
C2_Witness ==
    /\ last.op = "Add" /\ last.had
    /\ Len(firsts) >= 2 /\ firsts[1] = last.key
    /\ Keys(Self("m")) = firsts

\* C7: after a successful UnmarshalJSON(doc) the population is that of doc:
\* Contains(k) iff k is a field of doc, Get(k) is doc's value, Size() is the
\* number of fields, and Keys() is a permutation of the fields.
C7_PopulationIsDoc ==
    (last.op = "UnmarshalJSON" /\ ~last.err) =>
        LET m == Self("m")
            f == last.doc.fields
        IN  /\ \A k \in KeySet : Contains(m, k) <=> k \in DOMAIN f
            /\ \A k \in DOMAIN f : Get(m, k) = <<f[k], TRUE>>
            /\ Size(m) = Cardinality(DOMAIN f)
            /\ Keys(m) \in Perms(DOMAIN f)

\* C8: UnmarshalJSON of an input that is not a well-formed JSON object of the
\* value type returns an error and leaves entries and order as they were;
\* no other operation returns an error.
C8_BadInputIsRejected ==
    [][/\ (last'.op = "UnmarshalJSON" /\ last'.doc.kind # "object") =>
            (last'.err /\ data' = data /\ order' = order)
       /\ last'.op # "UnmarshalJSON" => ~last'.err]_vars

\* C9: Delete of a present key removes it from entries and from order and
\* leaves every other key, its value and the relative order of the others
\* unchanged; Delete of an absent key changes nothing.
C9_DeleteFrame ==
    [][last'.op = "Delete" =>
        LET k == last'.key
            keep(x) == x # k
        IN  IF last'.had
            THEN /\ ~Has(data'["m"], k)
                 /\ k \notin Range(order'["m"])
                 /\ DOMAIN data'["m"] = (DOMAIN data["m"]) \ {k}
                 /\ \A x \in DOMAIN data'["m"] : data'["m"][x] = data["m"][x]
                 /\ order'["m"] = SelectSeq(order["m"], keep)
            ELSE data' = data /\ order' = order]_vars

\* C9 witness: a Delete removed a key that was neither first nor last of
\* three.
C9_Witness ==
    /\ last.op = "Delete" /\ last.had
    /\ Len(order["m"]) = 2
    /\ \E a, b \in KeySet : a < last.key /\ last.key < b /\ order["m"] = <<a, b>>

\* C10: across Add and Delete calls the relative order of two keys that both
\* stay present does not change, and a key added again after its removal is
\* placed after every key present at that time.
C10_RelativeOrderStable ==
    [][/\ \A a, b \in Range(order["m"]) \cap Range(order'["m"]) :
            Pos(order["m"], a) < Pos(order["m"], b)
                <=> Pos(order'["m"], a) < Pos(order'["m"], b)
       /\ (last'.op = "Add" /\ ~last'.had /\ last'.key \in removed) =>
            \A x \in Range(order["m"]) :
                Pos(order'["m"], x) # 0
                    /\ Pos(order'["m"], x) < Pos(order'["m"], last'.key)]_vars

\* C10 witness: a key that had been removed was added again while the other
\* keys were present, and is now the last of them.
C10_Witness ==
    /\ last.op = "Add" /\ ~last.had /\ last.key \in removed
    /\ Len(order["m"]) = NumKeys
    /\ order["m"][NumKeys] = last.key

\* C3: a Get, Contains, Keys, Values, Index, Size, Clone or traversal that
\* runs concurrently with an Add or Delete on the same map observes a single
\* state of it, in which order and entries hold the same keys: while the
\* reader holds its read lock the map stays as it was when the lock was
\* taken, every key it took from order had a value in entries, and what it
\* has read is what that state holds.
C3_ReadersSeeOneState ==
    \A t \in Threads :
        /\ ~th[t].torn
        /\ th[t].view.id # "none" =>
              /\ Self(th[t].view.id) = th[t].view.m
              /\ I1(th[t].view.m)
              /\ \A p \in Range(th[t].acc) :
                    /\ Lookup(th[t].view.m.data, p[1]) = p[2]
                    /\ IF th[t].call.op \in {"Get", "Contains"}
                       THEN th[t].ret = Has(th[t].view.m.data, p[1])
                       ELSE Has(th[t].view.m.data, p[1])

\* C3 witness: the reader is inside its loop over order, past the first key,
\* while the writer has called Lock and waits for the reader to leave.
C3_Witness ==
    /\ ~Done("r") /\ Cur("r").k \in {"VisitAll", "VisitBreak", "VisitIndex"}
    /\ th["r"].i > 1 /\ th["r"].i <= Len(th["r"].snap)
    /\ mu["m"].r["r"] > 0
    /\ mu["m"].w = "w" /\ th["w"].pend

\* C4: the result of a Union, Difference, Intersection, Subset or Superset
\* that runs concurrently with an Add or Delete on either map never holds a
\* key taken from order whose value was not in entries (the claim derives
\* this from every read being made under the read lock of the map read).
C4_AlgebraResultNotTorn ==
    \A t \in Threads : th[t].call \in AlgebraCalls => ~th[t].torn

\* C5: a Contains, SafeSet.Get, First, Last or String running while another
\* caller runs Add on the same instance: both calls complete, that is, as
\* long as one of them has not returned some thread can take a step.
C5_BothCallsComplete ==
    (th["w"].call.op = "Add"
        /\ th["r"].call.op \in {"Contains", "SafeSet.Get", "SafeSet.First",
                                 "SafeSet.Last", "SafeSet.String"}) =>
        ((Done("w") /\ Done("r")) \/ ENABLED NextThreads)

\* The sequence o without its position i.
Without(o, i) == SubSeq(o, 1, i - 1) \o SubSeq(o, i + 1, Len(o))

\* C6: SafeSet.Delete(index) with 0 <= index < Size() returns (running on its
\* own, it can always take a step until it has returned), and then the
\* element that was at index is gone, Size() is one smaller and the others
\* keep their order.
C6_SetDeleteReturns ==
    (th["w"].call.op = "SafeSet.Delete" /\ th["w"].call.index < Len(firsts)
        /\ Done("r")) =>
        /\ ~Done("w") => ENABLED NextThreads
        /\ Done("w") =>
              /\ order["m"] = Without(firsts, th["w"].call.index + 1)
              /\ ~Has(data["m"], firsts[th["w"].call.index + 1])
              /\ Size(Self("m")) = Len(firsts) - 1

\* C11: Clone() returns a map with the Keys() and Values() the source has at
\* the time of the call; afterwards an Add or Delete on the clone leaves the
\* source's data and order as they were, and one on the source leaves the
\* clone's as they were.
C11_CloneIndependent ==
    [][/\ (out.op = "none" /\ out'.op = "Clone") =>
             /\ order'[out'.ref] = Keys(Self("m"))
             /\ Values([data |-> data'[out'.ref], order |-> order'[out'.ref]])
                    = Values(Self("m"))
             /\ data'["m"] = data["m"] /\ order'["m"] = order["m"]
       /\ (out.op = "Clone" /\ out'.on = "clone") =>
             data'["m"] = data["m"] /\ order'["m"] = order["m"]
       /\ (out.op = "Clone" /\ out'.on = "source") =>
             data'[out.ref] = data[out.ref] /\ order'[out.ref] = order[out.ref]]_vars

\* C11 witness: after a Clone of a map of two or more keys, both the clone
\* and the source were changed and now differ.
C11_Witness ==
    /\ out.op = "Clone" /\ out.after = MaxAfter
    /\ Len(order["other"]) >= 2
    /\ order["m"] # order["other"] /\ data["m"] # data["other"]

C14_SizeCountsContained ==
    /\ [](LET m == Self("m")
          IN  /\ Size(m) = Cardinality({k \in KeySet : Contains(m, k)})
              /\ Empty(m) <=> Size(m) = 0)
    /\ [][LET m2 == [data |-> data'["m"], order |-> order'["m"]]
          IN  \A k \in KeySet :
                 Contains(m2, k) <=>
                     IF last'.key = k THEN last'.op = "Add" ELSE Contains(Self("m"), k)]_vars

\* C14 witness: a Delete has just emptied a map that had held every key.
C14_Witness ==
    /\ last.op = "Delete" /\ last.had /\ removed = KeySet
    /\ Size(Self("m")) = 0 /\ Empty(Self("m"))

\* The entries of m as (key, value) pairs in the order of Keys().
EntrySeq(m) == [i \in 1..Len(m.order) |-> <<m.order[i], m.data[m.order[i]]>>]

\* The first position of EntrySeq(m) where predicate f returns v (0: none).
FirstAt(m, f, v) ==
    LET at == {i \in 1..Len(m.order) : f[EntrySeq(m)[i]] = v}
    IN  IF at = {} THEN 0 ELSE CHOOSE i \in at : \A j \in at : i <= j

TraversalOps ==
    {"All", "Any", "Map", "Filter", "Each", "Reduce", "Find", "TakeWhile", "DropWhile"}
AlgebraOps == {"Union", "Difference", "Intersection", "Subset", "Superset"}

\* C15: no traversal and no set operation changes the keys, order or values
\* of the receiver or of the argument map: Keys() and Values() after the
\* call are what they were before it.
C15_ReadsLeaveMapsAlone ==
    /\ out.op \in TraversalOps \cup AlgebraOps =>
          /\ Keys(Self("m")) = Keys(out.m)
          /\ Values(Self("m")) = Values(out.m)
          /\ data["m"] = out.m.data
    /\ out.op \in AlgebraOps =>
          /\ Keys(out.r.other) = Keys(out.arg)
          /\ Values(out.r.other) = Values(out.arg)
          /\ out.r.other.data = out.arg.data

\* C15 witness: a Filter that rejected an entry of a map holding every key.
C15_Witness ==
    /\ out.op = "Filter" /\ Len(order["m"]) = NumKeys
    /\ Len(out.r.ret.order) < NumKeys

\* C16: Map(fn) returns a new map with the receiver's Keys() in the same
\* order whose value for key k is fn(k, v), v the receiver's value for k; fn
\* is called once per entry, in order.
C16_MapAppliesFn ==
    out.op = "Map" =>
        /\ out.r.ptr = "new"
        /\ Keys(out.r.ret) = Keys(out.m)
        /\ DOMAIN out.r.ret.data = DOMAIN out.m.data
        /\ \A k \in DOMAIN out.m.data :
              Get(out.r.ret, k) = <<out.f[<<k, out.m.data[k]>>], TRUE>>
        /\ out.r.calls = EntrySeq(out.m)

\* C16 witness: a Map over two or more entries that changed the value of the
\* first and kept that of the second.
C16_Witness ==
    /\ out.op = "Map" /\ Len(out.m.order) >= 2
    /\ Values(out.r.ret)[1] # Values(out.m)[1]
    /\ Values(out.r.ret)[2] = Values(out.m)[2]

\* C17: Filter(predicate) returns a new map holding exactly the receiver's
\* entries that the predicate accepts, with the receiver's values and in the
\* receiver's relative order.
C17_FilterKeepsAccepted ==
    out.op = "Filter" =>
        LET accepted(k) == out.f[<<k, out.m.data[k]>>]
        IN  /\ out.r.ptr = "new"
            /\ Keys(out.r.ret) = SelectSeq(Keys(out.m), accepted)
            /\ DOMAIN out.r.ret.data = {k \in DOMAIN out.m.data : accepted(k)}
            /\ \A k \in DOMAIN out.r.ret.data : out.r.ret.data[k] = out.m.data[k]

\* C17 witness: a Filter that rejected the first entry and accepted later
\* ones.
C17_Witness ==
    /\ out.op = "Filter" /\ Len(out.m.order) = NumKeys
    /\ FirstAt(out.m, out.f, FALSE) = 1
    /\ Len(out.r.ret.order) = NumKeys - 1

\* C18: All(predicate) is true iff every entry satisfies the predicate, Any
\* is true iff some entry does; both call the predicate on the entries in
\* order and on none after the first that decides the result.
C18_AllAnyShortCircuit ==
    LET n == Len(out.m.order)
        upTo(at) == SubSeq(EntrySeq(out.m), 1, IF at = 0 THEN n ELSE at)
    IN  /\ out.op = "All" =>
              /\ out.r.ret <=> \A e \in Entries(out.m) : out.f[e]
              /\ out.r.calls = upTo(FirstAt(out.m, out.f, FALSE))
        /\ out.op = "Any" =>
              /\ out.r.ret <=> \E e \in Entries(out.m) : out.f[e]
              /\ out.r.calls = upTo(FirstAt(out.m, out.f, TRUE))

\* C18 witness: an All decided by the second of three or more entries.
C18_Witness ==
    /\ out.op = "All" /\ ~out.r.ret
    /\ Len(out.m.order) = NumKeys
    /\ Len(out.r.calls) = 2

\* fn(...fn(fn(acc, e1), e2)..., en) for the entries es = e1..en.
RECURSIVE LeftFold(_, _, _)
LeftFold(fn, acc, es) ==
    IF es = <<>> THEN acc ELSE LeftFold(fn, fn[<<acc, Head(es)>>], Tail(es))

C20_FindFirstMatch ==
    (out.op = "Find" /\ \E e \in Entries(out.m) : out.f[e]) =>
        LET at == FirstAt(out.m, out.f, TRUE)
        IN  out.r.ret = <<EntrySeq(out.m)[at][1], EntrySeq(out.m)[at][2], TRUE>>

\* C20 witness: a Find whose first match is the second entry, with a later
\* entry matching too.
C20_Witness ==
    /\ out.op = "Find" /\ out.r.ret[3]
    /\ Len(out.m.order) = NumKeys
    /\ out.r.ret[1] = out.m.order[2]
    /\ out.f[EntrySeq(out.m)[NumKeys]]

\* C21: TakeWhile(predicate) returns the longest prefix of the receiver's
\* entries that all satisfy the predicate: the entries before the first
\* failing one, in order, and no later entry even if it satisfies the
\* predicate.
C21_TakeWhileLongestPrefix ==
    out.op = "TakeWhile" =>
        LET at == FirstAt(out.m, out.f, FALSE)
            to == IF at = 0 THEN Len(out.m.order) ELSE at - 1
        IN  /\ out.r.ptr = "new"
            /\ EntrySeq(out.r.ret) = SubSeq(EntrySeq(out.m), 1, to)
            /\ DOMAIN out.r.ret.data = Range(out.r.ret.order)

\* C21 witness: a TakeWhile stopped by the second entry with a later entry
\* satisfying the predicate.
C21_Witness ==
    /\ out.op = "TakeWhile" /\ Len(out.m.order) = NumKeys
    /\ FirstAt(out.m, out.f, FALSE) = 2
    /\ out.f[EntrySeq(out.m)[NumKeys]]
    /\ Len(out.r.ret.order) = 1

Monotonic(m, f) ==
    \A i, j \in 1..Len(m.order) : (i < j /\ f[EntrySeq(m)[j]]) => f[EntrySeq(m)[i]]

KeysOf(m) == Range(Keys(m))

\* C25: A.Union(B) returns a new map whose Keys() are A's keys in A's order
\* followed by the keys of B that are not in A, in B's order; keys of A carry
\* A's values, the others B's; its Size() is at most A.Size() + B.Size().
C25_UnionAppendsNewKeys ==
    out.op = "Union" =>
        LET A == out.m
            B == out.arg
            U == out.r.ret
            fresh(k) == k \notin KeysOf(A)
        IN  /\ out.r.ptr = "new"
            /\ Keys(U) = Keys(A) \o SelectSeq(Keys(B), fresh)
            /\ DOMAIN U.data = KeysOf(U)
            /\ \A k \in KeysOf(U) :
                  Get(U, k) = IF k \in KeysOf(A) THEN Get(A, k) ELSE Get(B, k)
            /\ Size(U) <= Size(A) + Size(B)

\* C25 witness: a Union of two maps that share a key with different values,
\* each holding a key the other lacks.
C25_Witness ==
    /\ out.op = "Union"
    /\ \E k \in KeysOf(out.m) \cap KeysOf(out.arg) : out.m.data[k] # out.arg.data[k]
    /\ KeysOf(out.m) \ KeysOf(out.arg) # {}
    /\ KeysOf(out.arg) \ KeysOf(out.m) # {}

\* C26: A.Difference(B) returns exactly A's entries whose keys are absent from
\* B, A.Intersection(B) exactly those whose keys are present in B, both with
\* A's values and in A's order; the two results partition A's keys.
C26_DifferenceIntersectionPartition ==
    out.op \in {"Difference", "Intersection"} =>
        LET A == out.m
            B == out.arg
            inB(k) == k \in KeysOf(B)
            notInB(k) == k \notin KeysOf(B)
            D == Difference(A, B).ret
            I == Intersection(A, B).ret
        IN  /\ out.r.ret = (IF out.op = "Difference" THEN D ELSE I)
            /\ out.r.ptr = "new"
            /\ Keys(D) = SelectSeq(Keys(A), notInB)
            /\ Keys(I) = SelectSeq(Keys(A), inB)
            /\ \A R \in {D, I} :
                  /\ DOMAIN R.data = KeysOf(R)
                  /\ \A k \in KeysOf(R) : Get(R, k) = Get(A, k)
            /\ KeysOf(D) \cup KeysOf(I) = KeysOf(A)
            /\ KeysOf(D) \cap KeysOf(I) = {}

\* C26 witness: an Intersection that kept a key whose value differs in the
\* two maps and left out another key of the receiver.
C26_Witness ==
    /\ out.op = "Intersection"
    /\ \E k \in KeysOf(out.r.ret) : out.m.data[k] # out.arg.data[k]
    /\ Len(out.r.ret.order) < Len(out.m.order)

\* C27: A.Subset(B) is true iff every key of A is a key of B, whatever the
\* values; A.Superset(B) is what B.Subset(A) is (true iff every key of B is a
\* key of A); A.Subset(B) and B.Subset(A) both hold only when the key sets
\* are the same.
C27_SubsetComparesKeys ==
    /\ out.op = "Subset" =>
          /\ out.r.ret <=> KeysOf(out.m) \subseteq KeysOf(out.arg)
          /\ (out.r.ret /\ Subset(out.arg, out.m).ret) => KeysOf(out.m) = KeysOf(out.arg)
    /\ out.op = "Superset" =>
          /\ out.r.ret <=> KeysOf(out.arg) \subseteq KeysOf(out.m)
          /\ out.r.ret = Subset(out.arg, out.m).ret

\* C27 witness: a Superset that is false although every key of the receiver,
\* with another value, is a key of the argument.
C27_Witness ==
    /\ out.op = "Superset" /\ ~out.r.ret
    /\ out.m.order # <<>>
    /\ KeysOf(out.m) \subseteq KeysOf(out.arg)
    /\ \A k \in KeysOf(out.m) : out.m.data[k] # out.arg.data[k]

\* What C28 says of a round trip: no error, the decoded map has the key set
\* of m and the same value for every key.
SameEntries ==
    /\ ~out.b.err /\ ~out.r.err
    /\ KeysOf(out.r.m) = KeysOf(out.m)
    /\ DOMAIN out.r.m.data = KeysOf(out.m)
    /\ \A k \in KeysOf(out.m) : Get(out.r.m, k) = Get(out.m, k)

C29_SetListsDistinctValues ==
    /\ SetValues(Self("m")) = firsts
    /\ (out.op = "SafeSet.Add" /\ out.arg \in Range(SetValues(out.m)))
          => /\ SetSize(out.r) = SetSize(out.m)
             /\ SetValues(out.r) = SetValues(out.m)

\* C30: SafeSet.Map(f) returns a new set whose elements are the results f(v)
\* for the elements v of the receiver, and the receiver's own elements are
\* the same before and after the call.
C30_SetMapReturnsNewSet ==
    out.op = "SafeSet.Map"
      => /\ out.r.ptr = "new"
         /\ Range(SetValues(out.r.ret)) = {out.f[v] : v \in Range(SetValues(out.m))}
         /\ SetValues(out.r.self) = SetValues(out.m)

\* The elements of the sequence vs from the first one that fails the
\* predicate onward.
FromFirstFailure(vs, predicate) ==
    LET fails == {i \in 1..Len(vs) : ~predicate[vs[i]]}
    IN  IF fails = {} THEN <<>>
        ELSE SubSeq(vs, CHOOSE i \in fails : \A j \in fails : i <= j, Len(vs))

\* C31: SafeSet.DropWhile(predicate) returns all elements except the leading
\* run of elements that satisfy the predicate: every element from the first
\* failing one onward is kept, also the later ones that satisfy it.
C31_SetDropWhileDropsLeadingRun ==
    out.op = "SafeSet.DropWhile"
      => SetValues(out.r.ret) = FromFirstFailure(SetValues(out.m), out.f)

\* C32: SafeSlice s.Difference(other) returns a new slice containing the
\* elements present in s (the receiver) but not in other, in s's order.
C32_SliceDifferenceOfReceiver ==
    out.op = "SafeSlice.Difference"
      => out.r = SelectSeq(out.s, LAMBDA item : \A i \in 1..Len(out.other) : out.other[i] # item)

\* The number of times item occurs in the sequence s.
Occurrences(s, item) == Cardinality({i \in 1..Len(s) : s[i] = item})

\* C33: SafeSlice s.Union(other) returns a new slice in which every element
\* of s or other occurs exactly once, for any s and other, also slices that
\* themselves contain repeated elements.
C33_SliceUnionHasNoRepeats ==
    out.op = "SafeSlice.Union"
      => /\ Range(out.r) = Range(out.s) \cup Range(out.other)
         /\ \A item \in Range(out.r) : Occurrences(out.r, item) = 1

\* C34: the statistics functions are pure: Median, Range and Percentile
\* leave the elements of the sequence passed to them in the same order as
\* before the call, as Frequency, Mean and Variance do.
C34_StatisticsLeaveInput ==
    out.op \in {"Median", "Range", "Percentile", "Frequency", "Mean", "Variance"}
      => out.r.s = out.s /\ data["m"] = out.s

\* C35: Median, Range and Percentile return a non-nil error on an empty
\* sequence and a nil error on every non-empty one; Variance and
\* StandardDeviation return a non-nil error on a sequence of fewer than two
\* elements and a nil error otherwise.
C35_StatisticsErrors ==
    /\ out.op \in {"Median", "Range", "Percentile"}
          => ~out.r.panic /\ (out.r.err <=> Len(out.s) = 0)
    /\ out.op \in {"Variance", "StandardDeviation"}
          => ~out.r.panic /\ (out.r.err <=> Len(out.s) < 2)

\* C36: Percentile(s, p) accepts a percentage p between 0 and 100: for every
\* non-empty s and every p in that range it returns a value with a nil error
\* and never reads an index outside 0..len(s)-1.
C36_PercentileInRange ==
    (out.op = "Percentile" /\ Len(out.s) > 0)
      => /\ ~out.r.panic /\ ~out.r.err
         /\ out.r.reads \subseteq 0..(Len(out.s) - 1)

\* C37: a callback passed to a traversal (All, Any, Map, Filter, Each,
\* Reduce, Find, TakeWhile, DropWhile) runs while the receiver's shared lock
\* is held, so a callback that calls Add, Delete or UnmarshalJSON on the same
\* map never returns and the traversal never completes: once the callback
\* has been called, the thread holds the read lock and stays at the Lock of
\* the callback's call.
C37_CallbackNeverReturns ==
    LET s == th["r"]
    IN  (s.pc > 2 /\ s.snap # <<>>)
          => /\ mu["m"].r["r"] > 0
             /\ Cur("r").k = "Lock" /\ s.pc = 3
             /\ ~Done("r")

\* C37 witness: the callback's Lock has announced itself and waits for the
\* read lock that its own thread holds; no thread can take a step.
C37_Witness ==
    /\ th["r"].pc = 3 /\ th["r"].pend /\ mu["m"].w = "r" /\ mu["m"].r["r"] = 1
    /\ th["r"].snap # <<>>
    /\ ~ENABLED NextCallback

\* C38: the SafeSlice operations that take a second slice hold one slice's
\* shared lock while acquiring the other's; when s.Subset(o) and o.Subset(s)
\* run concurrently with an Add on s and an Add on o, all four calls always
\* complete, also under a reader/writer lock that blocks new readers while
\* a writer is waiting: as long as one of them has not returned, some
\* thread can take a step.
C38_SliceCallsComplete ==
    /\ \A t \in {"sub1", "sub2"} :
          (~Done(t) /\ Cur(t).k = "RLock" /\ Cur(t).x = th[t].call.other)
             => mu[th[t].call.x].r[t] = 1
    /\ (\A t \in DOMAIN th : Done(t)) \/ ENABLED NextSliceLocks

====
